---- MODULE Spec2Model ----
(***************************************************************************)
(* A model of four numerical components of the python back end, all under *)
(* algorithms/scientific:                                                  *)
(*   QuantileMappingCorrection and run_correction  (bias_correction.py)    *)
(*   BayesianModelAveraging                        (bayesian_ensemble.py)  *)
(*   WeatherAnomalyDetector and detect             (anomaly_detection.py)  *)
(*   WeatherKalmanFilter and run_filter            (kalman_filter.py)      *)
(*                                                                         *)
(* Numbers.  The code computes in IEEE doubles.  The model computes in     *)
(* exact rationals and keeps the non-finite doubles (nan, +inf, -inf) and  *)
(* the irrational results (square roots, gamma cdf/ppf, exp/log) as        *)
(* symbolic terms, so rounding error is abstracted away and everything     *)
(* else (which value is read, which branch is taken, what is stored, what  *)
(* raises) is as in the code.  Every number is a record                    *)
(*     [t, n, d, p]                                                        *)
(* t = "rat": the rational n/d (d > 0, lowest terms), p = <<>>             *)
(* t = "nan" | "inf" | "ninf": the non-finite doubles                      *)
(* t = "sqrt": the irrational sqrt(n/d)                                    *)
(* t = "nrm": n/d + (p[1]/p[2]) * sqrt(p[3]/p[4]), an irrational result of *)
(*            the parametric_normal transform                              *)
(* t = "gam": ppf_obs(cdf_model(x)) of the parametric_gamma transform; p   *)
(*            holds x and the two samples the distributions were fitted to *)
(***************************************************************************)
EXTENDS Integers, Sequences, FiniteSets, TLC

VARIABLES
    cls,       \* the class of the instance the caller holds
    qm,        \* the attributes of a QuantileMappingCorrection instance
    qmCtor,    \* the method argument the corrector was constructed with
    bma,       \* the attributes of a BayesianModelAveraging instance
    interp1d_minval,  \* scipy build: least number of points interp1d accepts
    logsumexp_empty,  \* scipy build: what logsumexp does on an empty list
    nfits,     \* the number of fit calls made on the corrector
    okfits,    \* the number of them that returned
    nweights,  \* the number of compute_weights calls made on the averager
    okweights, \* the number of them that returned
    kf,        \* the attributes of a WeatherKalmanFilter instance
    nkf,       \* the number of calls made on the filter
    call       \* the call the caller made last and its outcome

vars == <<cls, qm, qmCtor, bma, interp1d_minval, logsumexp_empty,
          nfits, okfits, nweights, okweights, kf, nkf, call>>

(***************************************************************************)
(* Bounds of the model.                                                    *)
(***************************************************************************)
MaxLen == 3          \* longest series passed to fit
MaxVal == 2          \* series values are 0..MaxVal
MaxXLen == 1         \* longest array passed to transform
MaxFits == 2         \* fit calls made on one instance
MaxObs == 2          \* longest series passed to compute_weights and predict
MaxBVal == 1         \* their values are 0..MaxBVal
MaxModels == 2       \* most entries of a models_predictions dict
MaxWeights == 2      \* compute_weights calls made on one instance
MaxStatLen == 2      \* longest array passed to compute_statistics
MaxDataLen == 4      \* longest array passed to detect
MaxKfCalls == 3      \* configure, filter_data and forecast calls on one filter
MaxSteps == 2        \* most steps asked of forecast

Vals == 0..MaxVal
XVals == -1..(MaxVal + 1)

RECURSIVE SeqsUpTo(_, _)
SeqsUpTo(S, n) ==
    IF n = 0 THEN {<<>>}
    ELSE LET prev == SeqsUpTo(S, n - 1)
         IN  prev \cup {Append(s, v) : s \in {q \in prev : Len(q) = n - 1}, v \in S}

\* The series passed to fit: every series shorter than MaxLen, of the series
\* of length MaxLen the strictly positive ones (the samples that are large
\* enough for the gamma fit), and one of that length that holds a zero (a
\* sample one positive value short of it).
Series ==
    SeqsUpTo(Vals, MaxLen - 1)
        \cup {s \in SeqsUpTo(1..MaxVal, MaxLen) : Len(s) = MaxLen}
        \cup {[i \in 1..MaxLen |-> i - 1]}
\* The arrays passed to transform: every array of at most MaxXLen values, and
\* two longer ones that mix positive and non-positive values.
XArrays == SeqsUpTo(XVals, MaxXLen) \cup {<<MaxVal, 0>>, <<-1, 1>>}

(***************************************************************************)
(* Optional attributes: None is <<>>, a set attribute is <<value>>.        *)
(***************************************************************************)
None == <<>>
Some(v) == <<v>>
IsSet(o) == Len(o) = 1
Get(o) == o[1]

(***************************************************************************)
(* Exact arithmetic.                                                       *)
(***************************************************************************)
Abs(i) == IF i < 0 THEN -i ELSE i

RECURSIVE Gcd(_, _)
Gcd(a, b) == IF b = 0 THEN a ELSE Gcd(b, a % b)

Rat(n, d) ==
    LET s == IF d < 0 THEN -1 ELSE 1
        g == Gcd(Abs(n), Abs(d))
    IN  [t |-> "rat", n |-> (s * n) \div g, d |-> (s * d) \div g, p |-> <<>>]

Int2(i) == Rat(i, 1)
NaN == [t |-> "nan", n |-> 0, d |-> 1, p |-> <<>>]
PInf == [t |-> "inf", n |-> 0, d |-> 1, p |-> <<>>]
NInf == [t |-> "ninf", n |-> 0, d |-> 1, p |-> <<>>]

IsRat(a) == a.t = "rat"
RAdd(a, b) == Rat(a.n * b.d + b.n * a.d, a.d * b.d)
RSub(a, b) == Rat(a.n * b.d - b.n * a.d, a.d * b.d)
RMul(a, b) == Rat(a.n * b.n, a.d * b.d)
RDiv(a, b) == Rat(a.n * b.d, a.d * b.n)
RLt(a, b) == a.n * b.d < b.n * a.d
RLe(a, b) == a.n * b.d <= b.n * a.d
RSign(a) == IF a.n > 0 THEN 1 ELSE IF a.n < 0 THEN -1 ELSE 0

RECURSIVE SumSeq(_)
SumSeq(s) == IF s = <<>> THEN 0 ELSE Head(s) + SumSeq(Tail(s))

\* the integer square root of i when i is a perfect square, -1 otherwise
ISqrt(i) ==
    LET r == {k \in 0..i : k * k = i}
    IN  IF r = {} THEN -1 ELSE CHOOSE k \in r : TRUE

\* sqrt of the rational a >= 0: a rational when it is one, else the term
Sqrt(a) ==
    IF ISqrt(a.n) >= 0 /\ ISqrt(a.d) >= 0
    THEN Rat(ISqrt(a.n), ISqrt(a.d))
    ELSE [t |-> "sqrt", n |-> a.n, d |-> a.d, p |-> <<>>]

(***************************************************************************)
(* numpy / scipy primitives used by the two classes.                       *)
(***************************************************************************)
RECURSIVE Insert(_, _)
Insert(v, s) ==
    IF s = <<>> THEN <<v>>
    ELSE IF v <= Head(s) THEN <<v>> \o s
    ELSE <<Head(s)>> \o Insert(v, Tail(s))

\* np.sort: a new ascending array
RECURSIVE NpSort(_)
NpSort(s) == IF s = <<>> THEN <<>> ELSE Insert(Head(s), NpSort(Tail(s)))

\* np.mean: nan for an empty array (numpy warns, it does not raise)
NpMean(s) == IF s = <<>> THEN NaN ELSE Rat(SumSeq(s), Len(s))

\* np.var with ddof=0: mean((x - mean(x))^2), nan for an empty array
NpVar(s) ==
    IF s = <<>> THEN NaN
    ELSE LET n == Len(s)
             sq == [i \in 1..n |-> s[i] * s[i]]
         IN  Rat(n * SumSeq(sq) - SumSeq(s) * SumSeq(s), n * n)

\* np.std: sqrt(np.var)
NpStd(s) == IF s = <<>> THEN NaN ELSE Sqrt(NpVar(s))

\* the values of a series as model numbers
AsNums(s) == [i \in 1..Len(s) |-> Int2(s[i])]

\* x[x > 0]
RECURSIVE Positive(_)
Positive(s) ==
    IF s = <<>> THEN <<>>
    ELSE IF Head(s) > 0 THEN <<Head(s)>> \o Positive(Tail(s))
    ELSE Positive(Tail(s))

\* scipy.interpolate.interp1d(x, y, bounds_error=False, fill_value=(below, above)),
\* kind linear: raises ValueError when x and y differ in length or hold fewer
\* than minval points (minval is 2 in older scipy builds, 1 in newer ones)
Interp1d(x, y, below, above, minval) ==
    IF Len(x) # Len(y) \/ Len(x) < minval
    THEN [err |-> "ValueError", f |-> None]
    ELSE [err |-> "", f |-> Some([x |-> x, y |-> y, below |-> below, above |-> above])]

\* np.interp(v, xp, fp) for xp[1] <= v <= xp[n]: the last j with xp[j] <= v
\* decides; fp[j] when v = xp[j] or j = n, linear between j and j+1 otherwise
NpInterp(v, xp, fp) ==
    LET n == Len(xp)
        j == CHOOSE k \in 1..n :
                 /\ RLe(xp[k], v)
                 /\ \A m \in (k + 1)..n : RLt(v, xp[m])
    IN  IF j = n \/ xp[j] = v THEN fp[j]
        ELSE RAdd(fp[j],
                  RMul(RDiv(RSub(fp[j + 1], fp[j]), RSub(xp[j + 1], xp[j])),
                       RSub(v, xp[j])))

\* interp1d.__call__ on one value: the fill values outside [x[0], x[-1]]
Interp1dCall(f, v) ==
    IF RLt(v, f.x[1]) THEN f.below
    ELSE IF RLt(f.x[Len(f.x)], v) THEN f.above
    ELSE NpInterp(v, f.x, f.y)

\* scipy.stats.gamma.fit(sample, floc=0): the fitted (shape, loc, scale) is kept
\* as the sorted sample it was fitted to.  On a constant sample the shape
\* equation degenerates (log(mean) - mean(log) is 0 up to rounding): all ones
\* always raises, other constants raise or converge depending on rounding.
\* g is what this build does on a constant sample that is not all ones.
IsConstant(s) == \A i \in 1..Len(s) : s[i] = s[1]
GammaFitRaises(sample, g) ==
    IsConstant(sample) /\ (sample[1] = 1 \/ g = "raise")
GammaParams(sample) == NpSort(sample)

\* ppf(cdf(x, *model_gamma), *obs_gamma) for x > 0
GammaMap(x, model_gamma, obs_gamma) ==
    [t |-> "gam", n |-> x, d |-> 1, p |-> model_gamma \o <<-1>> \o obs_gamma]

(***************************************************************************)
(* class QuantileMappingCorrection                                         *)
(***************************************************************************)
Methods == {"empirical", "parametric_normal", "parametric_gamma", "quantile"}

\* __init__(method): the attributes fit creates do not exist yet
QmNew(method) ==
    [method |-> method, model_cdf |-> None, obs_cdf |-> None, fitted |-> FALSE,
     model_data |-> None, obs_data |-> None, quantiles |-> None,
     model_to_quantile |-> None, quantile_to_obs |-> None,
     model_mean |-> None, model_std |-> None,
     obs_mean |-> None, obs_std |-> None,
     model_gamma |-> None, obs_gamma |-> None]

\* (np.arange(1, n + 1) - 0.5) / n
Quantiles(n) == [k \in 1..n |-> Rat(2 * k - 1, 2 * n)]

\* an empirical branch that builds the second interpolator from the model
\* sample where the code passes obs_data
FitEmpiricalModelAsObs(self, minval) ==
    LET md == Get(self.model_data)
        od == Get(self.obs_data)
        q  == Quantiles(Len(md))
        s2 == [self EXCEPT !.quantiles = Some(q)]
        r1 == Interp1d(AsNums(md), q, Int2(0), Int2(1), minval)
        s3 == [s2 EXCEPT !.model_to_quantile = r1.f]
        r2 == Interp1d(q, AsNums(md), Int2(md[1]), Int2(md[Len(md)]), minval)
    IN  IF r1.err # "" THEN [self |-> s2, raised |-> r1.err]
        ELSE IF od = <<>> THEN [self |-> s3, raised |-> "IndexError"]
        ELSE IF r2.err # "" THEN [self |-> s3, raised |-> r2.err]
        ELSE [self |-> [s3 EXCEPT !.quantile_to_obs = r2.f, !.fitted = TRUE],
              raised |-> ""]

\* an empirical branch whose second interpolator uses the grid k / n where
\* the code uses self.quantiles for both
FitEmpiricalShiftedGrid(self, minval) ==
    LET md == Get(self.model_data)
        od == Get(self.obs_data)
        q  == Quantiles(Len(md))
        q2 == [k \in 1..Len(md) |-> Rat(k, Len(md))]
        s2 == [self EXCEPT !.quantiles = Some(q)]
        r1 == Interp1d(AsNums(md), q, Int2(0), Int2(1), minval)
        s3 == [s2 EXCEPT !.model_to_quantile = r1.f]
        r2 == Interp1d(q2, AsNums(od), Int2(od[1]), Int2(od[Len(od)]), minval)
    IN  IF r1.err # "" THEN [self |-> s2, raised |-> r1.err]
        ELSE IF od = <<>> THEN [self |-> s3, raised |-> "IndexError"]
        ELSE IF r2.err # "" THEN [self |-> s3, raised |-> r2.err]
        ELSE [self |-> [s3 EXCEPT !.quantile_to_obs = r2.f, !.fitted = TRUE],
              raised |-> ""]

\* an empirical branch whose second interpolator pairs the quantiles with
\* the observations in descending order
FitEmpiricalDescendingObs(self, minval) ==
    LET md == Get(self.model_data)
        od == Get(self.obs_data)
        q  == Quantiles(Len(md))
        s2 == [self EXCEPT !.quantiles = Some(q)]
        r1 == Interp1d(AsNums(md), q, Int2(0), Int2(1), minval)
        s3 == [s2 EXCEPT !.model_to_quantile = r1.f]
        r2 == Interp1d(q, [i \in 1..Len(od) |-> Int2(od[Len(od) + 1 - i])],
                       Int2(od[Len(od)]), Int2(od[1]), minval)
    IN  IF r1.err # "" THEN [self |-> s2, raised |-> r1.err]
        ELSE IF od = <<>> THEN [self |-> s3, raised |-> "IndexError"]
        ELSE IF r2.err # "" THEN [self |-> s3, raised |-> r2.err]
        ELSE [self |-> [s3 EXCEPT !.quantile_to_obs = r2.f, !.fitted = TRUE],
              raised |-> ""]

\* fit, the empirical branch and the final self.fitted = True; self already
\* holds the sorted model_data and obs_data
FitEmpirical(self, minval) ==
    LET md == Get(self.model_data)
        od == Get(self.obs_data)
        q  == Quantiles(Len(md))
        s2 == [self EXCEPT !.quantiles = Some(q)]
        r1 == Interp1d(AsNums(md), q, Int2(0), Int2(1), minval)
        s3 == [s2 EXCEPT !.model_to_quantile = r1.f]
        r2 == Interp1d(q, AsNums(od), Int2(od[1]), Int2(od[Len(od)]), minval)
    IN  IF r1.err # "" THEN [self |-> s2, raised |-> r1.err]
        ELSE IF od = <<>> THEN [self |-> s3, raised |-> "IndexError"]
        ELSE IF r2.err # "" THEN [self |-> s3, raised |-> r2.err]
        ELSE [self |-> [s3 EXCEPT !.quantile_to_obs = r2.f, !.fitted = TRUE],
              raised |-> ""]

\* fit, the parametric_normal branch and the final self.fitted = True
FitNormal(self, model_data, obs_data) ==
    [self |-> [self EXCEPT !.model_mean = Some(NpMean(model_data)),
                           !.model_std = Some(NpStd(model_data)),
                           !.obs_mean = Some(NpMean(obs_data)),
                           !.obs_std = Some(NpStd(obs_data)),
                           !.fitted = TRUE],
     raised |-> ""]

\* fit, the parametric_gamma branch when both positive samples are large
\* enough, and the final self.fitted = True
FitGamma(self, model_pos, obs_pos, g) ==
    LET s2 == [self EXCEPT !.model_gamma = Some(GammaParams(model_pos))]
    IN  IF GammaFitRaises(model_pos, g) THEN [self |-> self, raised |-> "ValueError"]
        ELSE IF GammaFitRaises(obs_pos, g) THEN [self |-> s2, raised |-> "ValueError"]
        ELSE [self |-> [s2 EXCEPT !.obs_gamma = Some(GammaParams(obs_pos)),
                                  !.fitted = TRUE],
              raised |-> ""]

\* the test that keeps the gamma fit: len(model_pos) > 2 and len(obs_pos) > 2
GammaEnough(model_pos, obs_pos) == Len(model_pos) > 2 /\ Len(obs_pos) > 2

\* a fit whose gamma fallback fits the empirical maps to the filtered
\* positive values where the code passes the original series
FitFallbackFiltered(self, model_data, obs_data, minval, g) ==
    LET s1 == [self EXCEPT !.model_data = Some(NpSort(model_data)),
                           !.obs_data = Some(NpSort(obs_data))]
    IN  IF s1.method = "empirical" THEN FitEmpirical(s1, minval)
        ELSE IF s1.method = "parametric_normal" THEN FitNormal(s1, model_data, obs_data)
        ELSE IF s1.method = "parametric_gamma"
        THEN IF GammaEnough(Positive(model_data), Positive(obs_data))
             THEN FitGamma(s1, Positive(model_data), Positive(obs_data), g)
             ELSE FitEmpirical([s1 EXCEPT !.method = "empirical",
                                          !.model_data = Some(NpSort(Positive(model_data))),
                                          !.obs_data = Some(NpSort(Positive(obs_data)))],
                               minval)
        ELSE [self |-> [s1 EXCEPT !.fitted = TRUE], raised |-> ""]

\* fit(model_data, obs_data): the new attributes and what was raised ("" when
\* the call returns)
RECURSIVE Fit(_, _, _, _, _)
Fit(self, model_data, obs_data, minval, g) ==
    LET s1 == [self EXCEPT !.model_data = Some(NpSort(model_data)),
                           !.obs_data = Some(NpSort(obs_data))]
    IN  IF s1.method = "empirical" THEN FitEmpirical(s1, minval)
        ELSE IF s1.method = "parametric_normal" THEN FitNormal(s1, model_data, obs_data)
        ELSE IF s1.method = "parametric_gamma"
        THEN IF GammaEnough(Positive(model_data), Positive(obs_data))
             THEN FitGamma(s1, Positive(model_data), Positive(obs_data), g)
             ELSE Fit([s1 EXCEPT !.method = "empirical"], model_data, obs_data, minval, g)
        ELSE [self |-> [s1 EXCEPT !.fitted = TRUE], raised |-> ""]

\* the square of a standard deviation np.std returned
StdSquared(sd) == IF sd.t = "sqrt" THEN Rat(sd.n, sd.d) ELSE RMul(sd, sd)

\* (x - model_mean) / model_std * obs_std + obs_mean in doubles: a division by
\* a zero std gives nan or an infinity (numpy warns, it does not raise)
NormalValue(x, mm, ms, om, os) ==
    IF mm.t = "nan" \/ ms.t = "nan" \/ om.t = "nan" \/ os.t = "nan" THEN NaN
    ELSE LET k == RSub(Int2(x), mm)
         IN  IF ms = Int2(0)
             THEN IF k.n = 0 \/ os = Int2(0) THEN NaN
                  ELSE IF k.n > 0 THEN PInf ELSE NInf
             ELSE LET r  == RDiv(StdSquared(os), StdSquared(ms))
                      sr == Sqrt(r)
                  IN  IF k.n = 0 \/ r.n = 0 THEN om
                      ELSE IF sr.t = "rat" THEN RAdd(om, RMul(k, sr))
                      ELSE [t |-> "nrm", n |-> om.n, d |-> om.d,
                            p |-> <<k.n, k.d, r.n, r.d>>]

\* transform(model_values), by branch: what was raised and the corrected
\* array; reading an attribute no fit has created raises AttributeError
TransformEmpirical(self, xs) ==
    IF ~IsSet(self.model_to_quantile) \/ ~IsSet(self.quantile_to_obs)
    THEN [raised |-> "AttributeError", value |-> <<>>]
    ELSE [raised |-> "",
          value |-> [i \in 1..Len(xs) |->
                        Interp1dCall(Get(self.quantile_to_obs),
                            Interp1dCall(Get(self.model_to_quantile), Int2(xs[i])))]]

TransformNormal(self, xs) ==
    IF ~IsSet(self.model_mean) \/ ~IsSet(self.model_std)
       \/ ~IsSet(self.obs_std) \/ ~IsSet(self.obs_mean)
    THEN [raised |-> "AttributeError", value |-> <<>>]
    ELSE [raised |-> "",
          value |-> [i \in 1..Len(xs) |->
                        NormalValue(xs[i], Get(self.model_mean), Get(self.model_std),
                                    Get(self.obs_mean), Get(self.obs_std))]]

\* a gamma branch that maps the positive values and writes them first,
\* where the code writes them at the positions of the mask
TransformGammaPacked(self, xs) ==
    IF (\E i \in 1..Len(xs) : xs[i] > 0)
       /\ (~IsSet(self.model_gamma) \/ ~IsSet(self.obs_gamma))
    THEN [raised |-> "AttributeError", value |-> <<>>]
    ELSE LET pos == Positive(xs)
         IN  [raised |-> "",
              value |-> [i \in 1..Len(xs) |->
                            IF i <= Len(pos)
                            THEN GammaMap(pos[i], Get(self.model_gamma),
                                          Get(self.obs_gamma))
                            ELSE Int2(0)]]

TransformGamma(self, xs) ==
    IF (\E i \in 1..Len(xs) : xs[i] > 0)
       /\ (~IsSet(self.model_gamma) \/ ~IsSet(self.obs_gamma))
    THEN [raised |-> "AttributeError", value |-> <<>>]
    ELSE [raised |-> "",
          value |-> [i \in 1..Len(xs) |->
                        IF xs[i] > 0
                        THEN GammaMap(xs[i], Get(self.model_gamma), Get(self.obs_gamma))
                        ELSE Int2(0)]]

\* the branches of transform, after the test of self.fitted
TransformFitted(self, xs) ==
    IF self.method = "empirical" THEN TransformEmpirical(self, xs)
    ELSE IF self.method = "parametric_normal" THEN TransformNormal(self, xs)
    ELSE IF self.method = "parametric_gamma" THEN TransformGamma(self, xs)
    ELSE [raised |-> "UnboundLocalError", value |-> <<>>]

\* a transform without the test of self.fitted
TransformNoGuard(self, xs) ==
    LET r == TransformFitted(self, xs)
    IN  [self |-> self, raised |-> r.raised, value |-> r.value]

\* a transform that keeps its argument in self.model_data
TransformCaching(self, xs) ==
    LET r == IF ~self.fitted THEN [raised |-> "ValueError", value |-> <<>>]
             ELSE TransformFitted(self, xs)
    IN  [self |-> [self EXCEPT !.model_data = Some(xs)],
         raised |-> r.raised, value |-> r.value]

\* transform(model_values): the attributes after the call (it assigns none),
\* what was raised and the corrected array
Transform(self, xs) ==
    LET r == IF ~self.fitted THEN [raised |-> "ValueError", value |-> <<>>]
             ELSE TransformFitted(self, xs)
    IN  [self |-> self, raised |-> r.raised, value |-> r.value]

(***************************************************************************)
(* Python dicts keep insertion order: a dict is a sequence of [k, v] items *)
(* with distinct keys.                                                     *)
(***************************************************************************)
DictKeys(d) == {d[i].k : i \in 1..Len(d)}
DictHas(d, k) == \E i \in 1..Len(d) : d[i].k = k
DictGet(d, k) == d[CHOOSE i \in 1..Len(d) : d[i].k = k].v
DictKeySeq(d) == [i \in 1..Len(d) |-> d[i].k]

(***************************************************************************)
(* class BayesianModelAveraging                                            *)
(*                                                                         *)
(* The symbolic numbers of this class:                                     *)
(*   [t |-> "eps", n, d]      the variance n/d + 1e-10                     *)
(*   [t |-> "lp", p |-> <<pn, pd, n, vn, vd, rss>>]  the log posterior     *)
(*        log(pn/pd) - n/2 * log(2 pi (vn/vd + 1e-10)) - rss / (2 (vn/vd + 1e-10)) *)
(*   [t |-> "lse", terms]     logsumexp of the log posteriors in terms     *)
(*   [t |-> "w", num, den]    the weight exp(num - logsumexp(den))         *)
(* and "nan", "ninf" (log of 0) and "zero" (exp of -inf).                  *)
(***************************************************************************)
\* a constructor that starts from uniform weights where the code stores None
BmaNewUniform(model_names) ==
    [model_names |-> model_names, n_models |-> Len(model_names),
     posterior_weights |->
        Some([i \in 1..Len(model_names) |->
                [k |-> model_names[i],
                 v |-> [t |-> "w", num |-> <<>>, den |-> <<>>]]]),
     model_variances |-> Some(<<>>)]

\* __init__(model_names)
BmaNew(model_names) ==
    [model_names |-> model_names, n_models |-> Len(model_names),
     posterior_weights |-> None, model_variances |-> None]

\* a subtraction of observations from themselves, where the code subtracts
\* the predictions
ResidualsOfObservations(observations, predictions) ==
    LET no == Len(observations)
        np == Len(predictions)
    IN  IF no = np \/ np = 1
        THEN [ok |-> TRUE, r |-> [i \in 1..no |-> 0]]
        ELSE IF no = 1
        THEN [ok |-> TRUE, r |-> [i \in 1..np |-> 0]]
        ELSE [ok |-> FALSE, r |-> <<>>]

\* observations - predictions, with numpy's broadcasting of a one-element
\* array; ok is FALSE where numpy raises ValueError (shapes do not broadcast)
Residuals(observations, predictions) ==
    LET no == Len(observations)
        np == Len(predictions)
    IN  IF no = np
        THEN [ok |-> TRUE, r |-> [i \in 1..no |-> observations[i] - predictions[i]]]
        ELSE IF np = 1
        THEN [ok |-> TRUE, r |-> [i \in 1..no |-> observations[i] - predictions[1]]]
        ELSE IF no = 1
        THEN [ok |-> TRUE, r |-> [i \in 1..np |-> observations[1] - predictions[i]]]
        ELSE [ok |-> FALSE, r |-> <<>>]

\* estimate_variance: np.var(residuals, ddof=0) + 1e-10
EstimateVariance(predictions, observations) ==
    LET v == NpVar(Residuals(observations, predictions).r)
    IN  IF v.t = "nan" THEN NaN ELSE [t |-> "eps", n |-> v.n, d |-> v.d, p |-> <<>>]

\* compute_log_likelihood: -n/2 * log(2 pi variance) - rss / (2 variance),
\* with n = len(observations); kept as <<n, variance, rss>>
ComputeLogLikelihood(predictions, observations, variance) ==
    LET r == Residuals(observations, predictions).r
        rss == SumSeq([i \in 1..Len(r) |-> r[i] * r[i]])
    IN  IF variance.t = "nan" THEN [t |-> "nan", p |-> <<>>]
        ELSE [t |-> "ll", p |-> <<Len(observations), variance.n, variance.d, rss>>]

\* np.log(prior) + log_likelihood
LogPosterior(prior, ll) ==
    IF ll.t = "nan" THEN [t |-> "nan", p |-> <<>>]
    ELSE IF prior.n = 0 THEN [t |-> "ninf", p |-> <<>>]
    ELSE [t |-> "lp", p |-> <<prior.n, prior.d>> \o ll.p]

\* scipy.special.logsumexp of a non-empty list
LogSumExp(lps) ==
    IF \E i \in 1..Len(lps) : lps[i].t = "nan" THEN [t |-> "nan", terms |-> <<>>]
    ELSE IF \A i \in 1..Len(lps) : lps[i].t = "ninf" THEN [t |-> "ninf", terms |-> <<>>]
    ELSE [t |-> "lse", terms |-> lps]

\* float(np.exp(log_post - log_evidence))
ExpDiff(lp, le) ==
    IF lp.t = "nan" \/ le.t # "lse" THEN [t |-> "nan", num |-> <<>>, den |-> <<>>]
    ELSE IF lp.t = "ninf" THEN [t |-> "zero", num |-> <<>>, den |-> <<>>]
    ELSE [t |-> "w", num |-> lp.p, den |-> le.terms]

\* a loop over the names of models_predictions where the code loops over
\* self.model_names
IncludedFromMapping(model_names, models_predictions) == DictKeySeq(models_predictions)

\* the names of model_names that models_predictions holds, in model_names order
RECURSIVE Included(_, _)
Included(model_names, models_predictions) ==
    IF model_names = <<>> THEN <<>>
    ELSE IF DictHas(models_predictions, Head(model_names))
    THEN <<Head(model_names)>> \o Included(Tail(model_names), models_predictions)
    ELSE Included(Tail(model_names), models_predictions)

\* a default prior that gives the i-th name 1 / (i + 1), where the code gives
\* every name 1 / n_models
UniformPriorRanked(self) ==
    [i \in 1..Len(self.model_names) |->
        [k |-> self.model_names[i], v |-> Rat(1, i + 1)]]

\* a default prior that gives the first name half the share of the others
UniformPriorHalfFirst(self) ==
    [i \in 1..Len(self.model_names) |->
        [k |-> self.model_names[i],
         v |-> Rat(1, IF i = 1 THEN 2 * self.n_models ELSE self.n_models)]]

\* prior_weights is None: {name: 1.0 / self.n_models for name in self.model_names}
UniformPrior(self) ==
    [i \in 1..Len(self.model_names) |->
        [k |-> self.model_names[i], v |-> Rat(1, self.n_models)]]

\* prior_weights.get(name, 1.0 / self.n_models)
PriorOf(self, prior_weights, name) ==
    IF DictHas(prior_weights, name) THEN DictGet(prior_weights, name)
    ELSE Rat(1, self.n_models)

\* compute_weights(models_predictions, observations, prior_weights): the new
\* attributes, what was raised and the weights returned.  lse_empty is what
\* this scipy build's logsumexp does on an empty list ("raise" or "ninf").
ComputeWeights(self, models_predictions, observations, prior_arg, lse_empty) ==
    LET prior_weights == IF IsSet(prior_arg) THEN Get(prior_arg) ELSE UniformPrior(self)
        names == Included(self.model_names, models_predictions)
        preds(name) == DictGet(models_predictions, name)
        variances == [i \in 1..Len(names) |->
                        [k |-> names[i],
                         v |-> EstimateVariance(preds(names[i]), observations)]]
        log_posteriors == [i \in 1..Len(names) |->
                            LogPosterior(PriorOf(self, prior_weights, names[i]),
                                ComputeLogLikelihood(preds(names[i]), observations,
                                                     variances[i].v))]
        s2 == [self EXCEPT !.model_variances = Some(variances)]
        log_evidence == LogSumExp(log_posteriors)
        weights == [i \in 1..Len(names) |->
                      [k |-> names[i], v |-> ExpDiff(log_posteriors[i], log_evidence)]]
    IN  IF \E i \in 1..Len(names) : ~Residuals(observations, preds(names[i])).ok
        THEN [self |-> self, raised |-> "ValueError", value |-> <<>>]
        ELSE IF names = <<>> /\ lse_empty = "raise"
        THEN [self |-> s2, raised |-> "ValueError", value |-> <<>>]
        ELSE [self |-> [s2 EXCEPT !.posterior_weights = Some(weights)],
              raised |-> "", value |-> weights]

\* the caller's prior_weights mapping after compute_weights: the code reads
\* it with .get and assigns to none of its keys; the default dict is a
\* local of the call
PriorAfter(prior_arg) == prior_arg

\* predict after the test of posterior_weights.  The result
\* keeps the sums as their terms: mean = sum of posterior_weights[k] * v over
\* the items of mean, within = sum of posterior_weights[k] * v over the items
\* of within, between = sum of posterior_weights[k] * (v - mean)^2 over the
\* items of between; n is the number of time steps.
RECURSIVE Stacked(_, _)
Stacked(models_predictions, posterior_weights) ==
    IF models_predictions = <<>> THEN <<>>
    ELSE IF DictHas(posterior_weights, Head(models_predictions).k)
    THEN <<Head(models_predictions)>> \o Stacked(Tail(models_predictions), posterior_weights)
    ELSE Stacked(Tail(models_predictions), posterior_weights)

RECURSIVE VarianceTerms(_, _, _, _)
VarianceTerms(models_predictions, i, self, all_preds) ==
    IF i > Len(models_predictions) THEN [ok |-> TRUE, within |-> <<>>, between |-> <<>>]
    ELSE LET name == models_predictions[i].k
             rest == VarianceTerms(models_predictions, i + 1, self, all_preds)
         IN  IF ~DictHas(Get(self.posterior_weights), name) THEN rest
             ELSE IF i > Len(all_preds) THEN [ok |-> FALSE, within |-> <<>>, between |-> <<>>]
             ELSE [ok |-> rest.ok,
                   within |-> <<[k |-> name,
                                 v |-> IF DictHas(Get(self.model_variances), name)
                                       THEN DictGet(Get(self.model_variances), name)
                                       ELSE Int2(1)]>> \o rest.within,
                   between |-> <<[k |-> name, v |-> all_preds[i].v]>> \o rest.between]

PredictWeighted(self, models_predictions) ==
    IF ~IsSet(self.model_variances)
    THEN [raised |-> "AttributeError", value |-> <<>>]
    ELSE LET all_preds == Stacked(models_predictions, Get(self.posterior_weights))
             vt == VarianceTerms(models_predictions, 1, self, all_preds)
         IN  IF \E i, j \in 1..Len(all_preds) : Len(all_preds[i].v) # Len(all_preds[j].v)
             THEN [raised |-> "ValueError", value |-> <<>>]
             ELSE IF all_preds = <<>> \/ ~vt.ok
             THEN [raised |-> "IndexError", value |-> <<>>]
             ELSE [raised |-> "",
                   value |-> [mean |-> all_preds, within |-> vt.within,
                              between |-> vt.between, n |-> Len(all_preds[1].v)]]

\* predict(models_predictions): the attributes after the call (it assigns
\* none), what was raised and the result
Predict(self, models_predictions) ==
    LET r == IF ~IsSet(self.posterior_weights)
             THEN [raised |-> "ValueError", value |-> <<>>]
             ELSE PredictWeighted(self, models_predictions)
    IN  [self |-> self, raised |-> r.raised, value |-> r.value]

(***************************************************************************)
(* class WeatherKalmanFilter (algorithms/scientific/kalman_filter.py) over *)
(* filterpy's KalmanFilter.  The state x is kept exactly while it is a     *)
(* vector of integers; every other matrix or double is kept as the term    *)
(* that computes it, a record [t, a, b, z, w] with the operation t applied  *)
(* to the terms a and b (each <<>> or <<term>>) and the integers z and w.   *)
(***************************************************************************)
Term(t, a, b, z, w) == [t |-> t, a |-> a, b |-> b, z |-> z, w |-> w]
\* np.array([[position], [velocity]])
Vec(position, velocity) == Term("vec", <<>>, <<>>, position, velocity)
\* a double with an integer value
Num(i) == Term("num", <<>>, <<>>, i, 0)

\* __init__: KF(dim_x=2, dim_z=1) has x = 0, P = Q = I, R = [[1]], K = 0 and
\* x_prior, P_prior copies of x and P; then P *= 1000 and x = [[0], [0]]
KfNew ==
    [x |-> Vec(0, 0),
     P |-> Term("eye", <<>>, <<>>, 1000, 0),
     Q |-> Term("eye", <<>>, <<>>, 1, 0),
     R |-> Term("R", <<>>, <<>>, 1, 0),
     x_prior |-> Vec(0, 0),
     P_prior |-> Term("eye", <<>>, <<>>, 1, 0),
     K |-> Term("zeros", <<>>, <<>>, 0, 0)]

\* configure(process_noise, measurement_noise)
KfConfigured(self, process_noise, measurement_noise) ==
    [self EXCEPT !.Q = Term("Q", <<>>, <<>>, process_noise, 0),
                 !.R = Term("R", <<>>, <<>>, measurement_noise, 0)]

\* F @ x with F = [[1, 1], [0, 1]]
Fx(x) == IF x.t = "vec" THEN Vec(x.z + x.w, x.w) ELSE Term("Fx", <<x>>, <<>>, 0, 0)

\* float(x[0, 0]) and float(x[1, 0])
Position(x) == IF x.t = "vec" THEN Num(x.z) ELSE Term("x[0,0]", <<x>>, <<>>, 0, 0)
Velocity(x) == IF x.t = "vec" THEN Num(x.w) ELSE Term("x[1,0]", <<x>>, <<>>, 0, 0)

\* KalmanFilter.predict(): x = F x, P = F P F^T + Q, and the priors
KfPredict(self) ==
    LET x == Fx(self.x)
        P == Term("FPFt+Q", <<self.P>>, <<self.Q>>, 0, 0)
    IN  [self EXCEPT !.x = x, !.P = P, !.x_prior = x, !.P_prior = P]

\* KalmanFilter.update(z): S = H P H^T + R, K = P H^T S^-1,
\* x = x + K (z - H x), P = (I - K H) P (I - K H)^T + K R K^T
KfUpdate(self, z) ==
    LET S == Term("HPHt+R", <<self.P>>, <<self.R>>, 0, 0)
    IN  [self EXCEPT !.K = Term("PHtS^-1", <<S>>, <<>>, 0, 0),
                     !.x = Term("x+Ky", <<self.x>>, <<S>>, z, 0),
                     !.P = Term("(I-KH)P(I-KH)t+KRKt", <<S>>, <<>>, 0, 0)]

\* z - float(H @ x)
Innovation(z, x) ==
    IF x.t = "vec" THEN Num(z - x.z) ELSE Term("z-Hx", <<x>>, <<>>, z, 0)

\* the loop of filter_data from the i-th observation on: the filter after it
\* and the lists it appends to
RECURSIVE FilterFrom(_, _, _)
FilterFrom(self, observations, i) ==
    IF i > Len(observations)
    THEN [self |-> self, filtered |-> <<>>, velocities |-> <<>>, gains |-> <<>>,
          uncertainties |-> <<>>, innovations |-> <<>>]
    ELSE LET p == KfPredict(self)
             u == KfUpdate(p, observations[i])
             rest == FilterFrom(u, observations, i + 1)
         IN  [self |-> rest.self,
              filtered |-> <<Position(u.x)>> \o rest.filtered,
              velocities |-> <<Velocity(u.x)>> \o rest.velocities,
              gains |-> <<Term("K[0,0]", <<u.K>>, <<>>, 0, 0)>> \o rest.gains,
              uncertainties |-> <<Term("P[0,0]", <<u.P>>, <<>>, 0, 0)>>
                                    \o rest.uncertainties,
              innovations |-> <<Innovation(observations[i], p.x)>> \o rest.innovations]

\* filter_data(observations): the filter after the call, what was raised
\* and the dictionary returned
FilterData(self, observations) ==
    IF observations = <<>>
    THEN [self |-> self, raised |-> "IndexError", value |-> <<>>]
    ELSE LET r == FilterFrom([self EXCEPT !.x = Vec(observations[1], 0)],
                             observations, 1)
         IN  [self |-> r.self, raised |-> "",
              value |-> [filtered |-> r.filtered,
                         velocities |-> r.velocities,
                         kalman_gains |-> r.gains,
                         uncertainties |-> r.uncertainties,
                         innovations |-> r.innovations,
                         final_state |-> [position |-> Position(r.self.x),
                                          velocity |-> Velocity(r.self.x)],
                         final_covariance |-> r.self.P]]

\* the loop of forecast: the filter after k more predict steps and the
\* values appended
RECURSIVE ForecastLoop(_, _)
ForecastLoop(self, k) ==
    IF k <= 0 THEN [self |-> self, forecasts |-> <<>>]
    ELSE LET p == KfPredict(self)
             rest == ForecastLoop(p, k - 1)
         IN  [self |-> rest.self, forecasts |-> <<Position(p.x)>> \o rest.forecasts]

\* a forecast that restores x and leaves P as the last predict step made it
ForecastKeepsP(self, steps) ==
    LET x_backup == self.x
        l == ForecastLoop(self, steps)
    IN  [self |-> [l.self EXCEPT !.x = x_backup],
         raised |-> "", value |-> l.forecasts]

\* forecast(steps): the filter after the call and the list returned
Forecast(self, steps) ==
    LET x_backup == self.x
        P_backup == self.P
        l == ForecastLoop(self, steps)
    IN  [self |-> [l.self EXCEPT !.x = x_backup, !.P = P_backup],
         raised |-> "", value |-> l.forecasts]

\* run_filter(data, process_noise, measurement_noise): what was raised and,
\* of the dictionary returned, the fields of 'output'; kf is the filter the
\* call created, as it is when the call ends
RunFilterResult(data, process_noise, measurement_noise) ==
    LET kf0 == KfConfigured(KfNew, process_noise, measurement_noise)
        result == FilterData(kf0, data)
        forecast == Forecast(result.self, 7)
    IN  IF Len(data) < 3
        THEN [raised |-> "ValueError", value |-> <<>>, kf |-> <<>>]
        ELSE [raised |-> "",
              value |-> [filtered_all |-> result.value.filtered,
                         forecast_7_days |-> forecast.value,
                         final_state |-> result.value.final_state],
              kf |-> <<forecast.self>>]

(***************************************************************************)
(* The caller: it holds one instance, makes one call at a time and sees    *)
(* the outcome of a call before it makes the next.                         *)
(***************************************************************************)
Idle == [op |-> "none", a |-> <<>>, b |-> <<>>, c |-> <<>>, raised |-> "", value |-> <<>>]

\* what the build may do in gamma.fit for this call
GammaOracle(self, model_data, obs_data) ==
    LET mp == Positive(model_data)
        op == Positive(obs_data)
    IN  IF /\ self.method = "parametric_gamma"
           /\ GammaEnough(mp, op)
           /\ \/ IsConstant(mp) /\ mp[1] # 1
              \/ IsConstant(op) /\ op[1] # 1
        THEN {"fit", "raise"}
        ELSE {"fit"}

QmFit ==
    /\ cls = "QuantileMappingCorrection"
    /\ call.op = "none"
    /\ nfits < MaxFits
    /\ nfits' = nfits + 1
    /\ \E model_data \in Series, obs_data \in Series :
         \E g \in GammaOracle(qm, model_data, obs_data) :
            LET r == Fit(qm, model_data, obs_data, interp1d_minval, g)
            IN  /\ qm' = r.self
                /\ okfits' = IF r.raised = "" THEN okfits + 1 ELSE okfits
                /\ call' = [op |-> "fit", a |-> model_data, b |-> obs_data, c |-> g,
                            raised |-> r.raised, value |-> <<>>]
    /\ UNCHANGED <<cls, kf, nkf, qmCtor, bma, interp1d_minval, logsumexp_empty, nweights, okweights>>

QmTransform ==
    /\ cls = "QuantileMappingCorrection"
    /\ call.op = "none"
    /\ \E model_values \in XArrays :
          LET r == Transform(qm, model_values)
          IN  /\ qm' = r.self
              /\ call' = [op |-> "transform", a |-> model_values, b |-> <<>>, c |-> <<>>,
                          raised |-> r.raised, value |-> r.value]
    /\ UNCHANGED <<cls, kf, nkf, qmCtor, bma, interp1d_minval, logsumexp_empty,
                   nfits, okfits, nweights, okweights>>

ModelNames == <<"A", "B">>
Names == {"A", "B"}
BSeries == SeqsUpTo(0..MaxBVal, MaxObs)

\* the models_predictions dicts: at most MaxModels items, in any order
RECURSIVE DictsUpTo(_)
DictsUpTo(n) ==
    IF n = 0 THEN {<<>>}
    ELSE LET prev == DictsUpTo(n - 1)
         IN  prev \cup {Append(d, [k |-> k, v |-> v]) :
                            d \in {q \in prev : Len(q) = n - 1}, k \in Names, v \in BSeries}
\* two more, with a name that is not in model_names, before and after one
\* that is
Predictions ==
    {d \in DictsUpTo(MaxModels) : Cardinality(DictKeys(d)) = Len(d)}
        \cup {<<[k |-> "C", v |-> <<1, 0>>], [k |-> "A", v |-> <<0, 1>>]>>,
               <<[k |-> "A", v |-> <<0, 1>>], [k |-> "C", v |-> <<1, 0>>]>>}

\* the prior_weights arguments: omitted (the uniform prior), and a prior that
\* favours B
Priors ==
    {None, Some(<<[k |-> "A", v |-> Rat(1, 4)], [k |-> "B", v |-> Rat(3, 4)]>>)}

BmaComputeWeights ==
    /\ cls = "BayesianModelAveraging"
    /\ call.op = "none"
    /\ nweights < MaxWeights
    /\ nweights' = nweights + 1
    /\ \E models_predictions \in Predictions, observations \in BSeries,
          prior_weights \in Priors :
            LET r == ComputeWeights(bma, models_predictions, observations,
                                    prior_weights, logsumexp_empty)
            IN  /\ bma' = r.self
                /\ okweights' = IF r.raised = "" THEN okweights + 1 ELSE okweights
                /\ call' = [op |-> "compute_weights", a |-> models_predictions,
                            b |-> observations, c |-> prior_weights,
                            raised |-> r.raised, value |-> r.value]
    /\ UNCHANGED <<cls, kf, nkf, qm, qmCtor, interp1d_minval, logsumexp_empty, nfits, okfits>>

BmaPredict ==
    /\ cls = "BayesianModelAveraging"
    /\ call.op = "none"
    /\ \E models_predictions \in Predictions :
          LET r == Predict(bma, models_predictions)
          IN  /\ bma' = r.self
              /\ call' = [op |-> "predict", a |-> models_predictions, b |-> <<>>, c |-> <<>>,
                          raised |-> r.raised, value |-> r.value]
    /\ UNCHANGED <<cls, kf, nkf, qm, qmCtor, interp1d_minval, logsumexp_empty,
                   nfits, okfits, nweights, okweights>>

\* the caller has seen the outcome of its last call
Return ==
    /\ call.op # "none"
    /\ call' = Idle
    /\ UNCHANGED <<cls, kf, nkf, qm, qmCtor, bma, interp1d_minval, logsumexp_empty,
                   nfits, okfits, nweights, okweights>>

InitQM ==
    /\ cls = "QuantileMappingCorrection"
    /\ qmCtor \in Methods
    /\ qm = QmNew(qmCtor)
    /\ bma = BmaNew(ModelNames)
    /\ interp1d_minval \in {1, 2}
    /\ logsumexp_empty = "raise"
    /\ nfits = 0
    /\ okfits = 0
    /\ nweights = 0
    /\ okweights = 0
    /\ kf = KfNew
    /\ nkf = 0
    /\ call = Idle

InitBMA ==
    /\ cls = "BayesianModelAveraging"
    /\ qmCtor = "empirical"
    /\ qm = QmNew(qmCtor)
    /\ bma = BmaNew(ModelNames)
    /\ interp1d_minval = 1
    /\ logsumexp_empty \in {"raise", "ninf"}
    /\ nfits = 0
    /\ okfits = 0
    /\ nweights = 0
    /\ okweights = 0
    /\ kf = KfNew
    /\ nkf = 0
    /\ call = Idle

Init == InitQM \/ InitBMA

NextQM == QmFit \/ QmTransform \/ Return
NextBMA == BmaComputeWeights \/ BmaPredict \/ Return
Next == QmFit \/ QmTransform \/ BmaComputeWeights \/ BmaPredict \/ Return

\* a caller of either class, of a corrector, of an averager
Spec == Init /\ [][Next]_vars
SpecQM == InitQM /\ [][NextQM]_vars
SpecBMA == InitBMA /\ [][NextBMA]_vars

(***************************************************************************)
(* compute_statistics and run_correction                                   *)
(***************************************************************************)
\* a double the model does not compute (a mean or a root of symbolic terms)
Sym == [t |-> "sym", n |-> 0, d |-> 1, p |-> <<>>]

RAbs(a) == Rat(Abs(a.n), a.d)

RECURSIVE RSum(_)
RSum(s) == IF s = <<>> THEN Int2(0) ELSE RAdd(Head(s), RSum(Tail(s)))

\* np.mean of an array of model numbers
RMean(s) ==
    IF s = <<>> \/ \E i \in 1..Len(s) : s[i].t = "nan" THEN NaN
    ELSE IF \E i \in 1..Len(s) : s[i].t # "rat" THEN Sym
    ELSE RDiv(RSum(s), Int2(Len(s)))

\* x - y elementwise with numpy's broadcasting of a one-element array; ok is
\* FALSE where numpy raises ValueError
ArrayDiff(x, y) ==
    LET sub(a, b) == IF a.t = "nan" \/ b.t = "nan" THEN NaN
                     ELSE IF a.t # "rat" \/ b.t # "rat" THEN Sym
                     ELSE RSub(a, b)
    IN  IF Len(x) = Len(y)
        THEN [ok |-> TRUE, r |-> [i \in 1..Len(x) |-> sub(x[i], y[i])]]
        ELSE IF Len(y) = 1
        THEN [ok |-> TRUE, r |-> [i \in 1..Len(x) |-> sub(x[i], y[1])]]
        ELSE IF Len(x) = 1
        THEN [ok |-> TRUE, r |-> [i \in 1..Len(y) |-> sub(x[1], y[i])]]
        ELSE [ok |-> FALSE, r |-> <<>>]

\* np.mean(r ** 2)
MeanSquare(r) ==
    IF r = <<>> \/ \E i \in 1..Len(r) : r[i].t = "nan" THEN NaN
    ELSE IF \E i \in 1..Len(r) : r[i].t # "rat" THEN Sym
    ELSE RDiv(RSum([i \in 1..Len(r) |-> RMul(r[i], r[i])]), Int2(Len(r)))

\* np.sqrt of a mean square
RootOf(ms) == IF ms.t = "rat" THEN Sqrt(ms) ELSE ms

\* np.var of an array of model numbers
RVar(s) ==
    LET m == RMean(s)
    IN  IF m.t # "rat" THEN m
        ELSE RDiv(RSum([i \in 1..Len(s) |-> RMul(RSub(s[i], m), RSub(s[i], m))]),
                  Int2(Len(s)))

\* a / b in doubles for a, b >= 0: inf or nan when b is 0 (numpy warns, it
\* does not raise)
FloatDiv(a, b) ==
    IF a.t = "nan" \/ b.t = "nan" THEN NaN
    ELSE IF a.t # "rat" \/ b.t # "rat" THEN Sym
    ELSE IF b.n = 0 THEN (IF a.n = 0 THEN NaN ELSE PInf)
    ELSE RDiv(a, b)

\* a bias reduction whose value for bias_before = 0 is 0, where the code
\* returns 100
BiasReductionZero(bias_before, bias_after) ==
    IF bias_before.t = "rat" /\ bias_before.n = 0 THEN Int2(0)
    ELSE IF bias_before.t = "nan" \/ bias_after.t = "nan" THEN NaN
    ELSE IF bias_before.t # "rat" \/ bias_after.t # "rat" THEN Sym
    ELSE RMul(RSub(Int2(1), RDiv(RAbs(bias_after), RAbs(bias_before))), Int2(100))

\* float((1 - abs(bias_after) / abs(bias_before)) * 100) if bias_before != 0
\* else 100
BiasReduction(bias_before, bias_after) ==
    IF bias_before.t = "rat" /\ bias_before.n = 0 THEN Int2(100)
    ELSE IF bias_before.t = "nan" \/ bias_after.t = "nan" THEN NaN
    ELSE IF bias_before.t # "rat" \/ bias_after.t # "rat" THEN Sym
    ELSE RMul(RSub(Int2(1), RDiv(RAbs(bias_after), RAbs(bias_before))), Int2(100))

\* float((1 - rmse_after / rmse_before) * 100) if rmse_before > 0 else 0, from
\* the two mean squares: (1 - sqrt(after / before)) * 100, kept as the term
\* "pct" of after / before when the root is irrational
RmseReduction(ms_before, ms_after) ==
    IF ms_before.t # "rat" THEN (IF ms_before.t = "nan" THEN Int2(0) ELSE Sym)
    ELSE IF ms_before.n <= 0 THEN Int2(0)
    ELSE IF ms_after.t = "nan" THEN NaN
    ELSE IF ms_after.t # "rat" THEN Sym
    ELSE LET q == Sqrt(RDiv(ms_after, ms_before))
         IN  IF q.t = "rat" THEN RMul(RSub(Int2(1), q), Int2(100))
             ELSE [t |-> "pct", n |-> q.n, d |-> q.d, p |-> <<>>]

\* compute_statistics(model_data, obs_data, corrected_data): what was raised
\* and the dictionary returned; model_data and obs_data are series, and
\* corrected_data an array of model numbers
ComputeStatistics(model_data, obs_data, corrected_data) ==
    LET m == AsNums(model_data)
        o == AsNums(obs_data)
        c == corrected_data
        bias_before == ArrayDiff(<<RMean(m)>>, <<RMean(o)>>).r[1]
        bias_after == ArrayDiff(<<RMean(c)>>, <<RMean(o)>>).r[1]
        d_before == ArrayDiff(m, o)
        d_after == ArrayDiff(c, o)
        ms_before == MeanSquare(d_before.r)
        ms_after == MeanSquare(d_after.r)
    IN  IF ~d_before.ok \/ ~d_after.ok
        THEN [raised |-> "ValueError", value |-> <<>>]
        ELSE IF m = <<>> \/ o = <<>> \/ c = <<>>
        THEN [raised |-> "ValueError", value |-> <<>>]
        ELSE [raised |-> "",
              value |->
                [bias |-> [before |-> bias_before, after |-> bias_after,
                           reduction_percent |-> BiasReduction(bias_before, bias_after)],
                 rmse |-> [before |-> RootOf(ms_before), after |-> RootOf(ms_after),
                           reduction_percent |-> RmseReduction(ms_before, ms_after)],
                 variance_ratio |-> [before |-> FloatDiv(RVar(m), RVar(o)),
                                     after |-> FloatDiv(RVar(c), RVar(o))]]]

\* a dispatch that passes the constructor's own method names through, where
\* the code maps every string outside method_map to "empirical"
InternalMethodPassThrough(method) ==
    IF method = "quantile" THEN "empirical"
    ELSE IF method = "linear" THEN "parametric_normal"
    ELSE IF method = "gamma" THEN "parametric_gamma"
    ELSE IF method \in {"parametric_normal", "parametric_gamma"} THEN method
    ELSE "empirical"

\* method_map.get(method, "empirical")
InternalMethod(method) ==
    IF method = "quantile" THEN "empirical"
    ELSE IF method = "linear" THEN "parametric_normal"
    ELSE IF method = "gamma" THEN "parametric_gamma"
    ELSE IF method = "empirical" THEN "empirical"
    ELSE "empirical"

\* a run_correction that fits the observations to the predictions, where the
\* code fits the predictions to the observations
RunCorrectionFitSwapped(predictions, observations, method, minval, g) ==
    LET internal_method == InternalMethod(method)
        f == Fit(QmNew(internal_method), observations, predictions, minval, g)
        corrected == Transform(f.self, predictions)
        stats_dict == ComputeStatistics(predictions, observations, corrected.value)
    IN  IF f.raised # ""
        THEN [raised |-> f.raised, value |-> <<>>, qm |-> f.self]
        ELSE IF corrected.raised # ""
        THEN [raised |-> corrected.raised, value |-> <<>>, qm |-> f.self]
        ELSE IF stats_dict.raised # ""
        THEN [raised |-> stats_dict.raised, value |-> <<>>, qm |-> f.self]
        ELSE [raised |-> "",
              value |-> [method |-> method,
                         corrected_values |-> corrected.value,
                         statistics |-> stats_dict.value],
              qm |-> f.self]

\* run_correction(predictions, observations, method): what was raised and,
\* of the dictionary returned, the fields that depend on the call; qm is the
\* corrector the call created, as it is when the call ends
RunCorrectionResult(predictions, observations, method, minval, g) ==
    LET internal_method == InternalMethod(method)
        f == Fit(QmNew(internal_method), predictions, observations, minval, g)
        corrected == Transform(f.self, predictions)
        stats_dict == ComputeStatistics(predictions, observations, corrected.value)
    IN  IF f.raised # ""
        THEN [raised |-> f.raised, value |-> <<>>, qm |-> f.self]
        ELSE IF corrected.raised # ""
        THEN [raised |-> corrected.raised, value |-> <<>>, qm |-> f.self]
        ELSE IF stats_dict.raised # ""
        THEN [raised |-> stats_dict.raised, value |-> <<>>, qm |-> f.self]
        ELSE [raised |-> "",
              value |-> [method |-> method,
                         corrected_values |-> corrected.value,
                         statistics |-> stats_dict.value],
              qm |-> f.self]

\* the method strings passed to run_correction; "zscore" is none of its names
MethodStrings ==
    {"quantile", "linear", "gamma", "empirical",
     "parametric_normal", "parametric_gamma", "zscore"}

\* the arrays passed to compute_statistics
StatSeries == SeqsUpTo(Vals, MaxStatLen)

\* a call of compute_statistics on the corrector
QmComputeStatistics ==
    /\ cls = "bias_correction"
    /\ call.op = "none"
    /\ \E model_data \in StatSeries, obs_data \in StatSeries,
          corrected_data \in StatSeries :
            LET r == ComputeStatistics(model_data, obs_data, AsNums(corrected_data))
            IN  call' = [op |-> "compute_statistics", a |-> model_data, b |-> obs_data,
                         c |-> corrected_data, raised |-> r.raised, value |-> r.value]
    /\ UNCHANGED <<cls, kf, nkf, qm, qmCtor, bma, interp1d_minval, logsumexp_empty,
                   nfits, okfits, nweights, okweights>>

\* a call of run_correction: the corrector it creates is local to the call
\* and is kept with the outcome
RunCorrection ==
    /\ cls = "bias_correction"
    /\ call.op = "none"
    /\ \E predictions \in Series, observations \in Series, method \in MethodStrings :
         \E g \in GammaOracle(QmNew(InternalMethod(method)), predictions, observations) :
            LET r == RunCorrectionResult(predictions, observations, method,
                                         interp1d_minval, g)
            IN  call' = [op |-> "run_correction", a |-> predictions, b |-> observations,
                         c |-> method, raised |-> r.raised,
                         value |-> [result |-> r.value, qm |-> r.qm]]
    /\ UNCHANGED <<cls, kf, nkf, qm, qmCtor, bma, interp1d_minval, logsumexp_empty,
                   nfits, okfits, nweights, okweights>>

\* a caller of the functions of bias_correction.py
InitRun ==
    /\ cls = "bias_correction"
    /\ qmCtor = "empirical"
    /\ qm = QmNew(qmCtor)
    /\ bma = BmaNew(ModelNames)
    /\ interp1d_minval \in {1, 2}
    /\ logsumexp_empty = "raise"
    /\ nfits = 0
    /\ okfits = 0
    /\ nweights = 0
    /\ okweights = 0
    /\ kf = KfNew
    /\ nkf = 0
    /\ call = Idle

NextRun == QmComputeStatistics \/ RunCorrection \/ Return
SpecRun == InitRun /\ [][NextRun]_vars

(***************************************************************************)
(* anomaly_detection.py: class WeatherAnomalyDetector and detect           *)
(***************************************************************************)
RECURSIVE RInsert(_, _)
RInsert(v, s) ==
    IF s = <<>> THEN <<v>>
    ELSE IF RLe(v, Head(s)) THEN <<v>> \o s
    ELSE <<Head(s)>> \o RInsert(v, Tail(s))

\* np.sort of an array of model numbers
RECURSIVE RSort(_)
RSort(s) == IF s = <<>> THEN <<>> ELSE RInsert(Head(s), RSort(Tail(s)))

\* np.percentile(a, q), linear interpolation between the two order
\* statistics around the position (n - 1) * q / 100; nan for an empty array
\* on the builds that do not raise
NpPercentile(a, q) ==
    IF a = <<>> THEN NaN
    ELSE LET srt == RSort(a)
             n == Len(srt)
             lo == ((n - 1) * q) \div 100
             hi == IF lo + 1 < n THEN lo + 1 ELSE lo
             frac == RSub(Rat((n - 1) * q, 100), Int2(lo))
         IN  RAdd(srt[lo + 1], RMul(frac, RSub(srt[hi + 1], srt[lo + 1])))

\* np.median
NpMedian(a) == NpPercentile(a, 50)

\* np.abs(d / (std + 1e-10)) > t for a deviation d from the mean, the
\* variance var = std^2 and a bound t: every score is >= 0 > t for t < 0;
\* for t >= 0 the test is |d| > t * std + t * 1e-10, which for the values of
\* the model is d^2 > t^2 * var (t * 1e-10 is below every positive
\* |d| - t * std, and a constant array has d = 0)
ScoreAbove(d, var, t) ==
    IF t.n < 0 THEN TRUE
    ELSE RLt(RMul(RMul(t, t), var), RMul(d, d))

\* detect_zscore: anomaly_mask
ZscoreMask(data, threshold) ==
    LET mean == NpMean(data)
        var == NpVar(data)
    IN  [i \in 1..Len(data) |-> ScoreAbove(RSub(Int2(data[i]), mean), var, threshold)]

\* detect_iqr: anomaly_mask
IqrMask(data, threshold) ==
    LET q1 == NpPercentile(AsNums(data), 25)
        q3 == NpPercentile(AsNums(data), 75)
        iqr == RSub(q3, q1)
        lower_bound == RSub(q1, RMul(threshold, iqr))
        upper_bound == RAdd(q3, RMul(threshold, iqr))
    IN  [i \in 1..Len(data) |->
            RLt(Int2(data[i]), lower_bound) \/ RLt(upper_bound, Int2(data[i]))]

\* detect_modified_zscore: anomaly_mask.  np.abs(0.6745 * d / (mad + 1e-10))
\* > t is, for t >= 0 and the values of the model, 0.6745 * |d| > t * mad
ModifiedZscoreMask(data, threshold) ==
    LET median == NpMedian(AsNums(data))
        dev == [i \in 1..Len(data) |-> RSub(Int2(data[i]), median)]
        mad == NpMedian([i \in 1..Len(data) |-> RAbs(dev[i])])
    IN  [i \in 1..Len(data) |->
            IF threshold.n < 0 THEN TRUE
            ELSE RLt(RMul(threshold, mad), RMul(Rat(6745, 10000), RAbs(dev[i])))]

\* np.where(mask)[0].tolist(), with the 0-based indices of Python
RECURSIVE WhereFrom(_, _)
WhereFrom(mask, i) ==
    IF i > Len(mask) THEN <<>>
    ELSE IF mask[i] THEN <<i - 1>> \o WhereFrom(mask, i + 1)
    ELSE WhereFrom(mask, i + 1)
NpWhere(mask) == WhereFrom(mask, 1)

\* the dictionary detect builds from the mask of its method
DetectionOf(data, mask) ==
    CHOOSE r \in {[mask |-> mask,
                   anomaly_indices |-> anomaly_indices,
                   anomaly_values |->
                      [k \in 1..Len(anomaly_indices) |-> data[anomaly_indices[k] + 1]],
                   n_anomalies |-> Len(anomaly_indices)] :
                        anomaly_indices \in {NpWhere(mask)}} : TRUE

\* WeatherAnomalyDetector(method, threshold).detect(data): what was raised
\* and, of the dictionary returned, the mask and what is derived from it;
\* pe is what this numpy build's percentile does on an empty array
DetectorDetect(method, threshold, data, pe) ==
    IF method \notin {"zscore", "iqr", "modified_zscore"}
    THEN [raised |-> "ValueError", value |-> <<>>]
    ELSE IF method = "iqr" /\ data = <<>> /\ pe = "raise"
    THEN [raised |-> "IndexError", value |-> <<>>]
    ELSE CHOOSE r \in {[raised |-> "", value |-> DetectionOf(data, mask)] :
                          mask \in {IF method = "zscore" THEN ZscoreMask(data, threshold)
                                    ELSE IF method = "iqr" THEN IqrMask(data, threshold)
                                    ELSE ModifiedZscoreMask(data, threshold)}} : TRUE

\* get_anomaly_classification
GetAnomalyClassification(data) ==
    LET mean == NpMean(data)
        var == NpVar(data)
        above(i, t) == ScoreAbove(RSub(Int2(data[i]), mean), var, Int2(t))
        n == Len(data)
    IN  [mild |-> NpWhere([i \in 1..n |-> above(i, 2) /\ ~above(i, 3)]),
         moderate |-> NpWhere([i \in 1..n |-> above(i, 3) /\ ~above(i, 4)]),
         severe |-> NpWhere([i \in 1..n |-> above(i, 4)])]

\* detect after detector.detect(data_array) returned r: the classification
\* and the dictionary; len(data) = 0 makes the anomaly rate a division of
\* integers by zero
DetectSummary(data, method, threshold, r) ==
    IF Len(data) = 0
    THEN [raised |-> "ZeroDivisionError", value |-> <<>>]
    ELSE [raised |-> "",
          value |->
            [method |-> method,
             threshold |-> threshold,
             results |->
                [total_points |-> Len(data),
                 n_anomalies |-> r.n_anomalies,
                 anomaly_rate |-> Rat(r.n_anomalies * 100, Len(data)),
                 anomaly_indices |-> r.anomaly_indices,
                 anomaly_values |-> r.anomaly_values,
                 severity_classification |-> GetAnomalyClassification(data)]]]

\* detect(data, method, threshold): what was raised and, of the dictionary
\* returned, 'method', 'threshold' and 'results'
DetectResult(data, method, threshold, pe) ==
    CHOOSE r \in {IF detection_result.raised # ""
                  THEN [raised |-> detection_result.raised, value |-> <<>>]
                  ELSE DetectSummary(data, method, threshold, detection_result.value) :
                      detection_result \in {DetectorDetect(method, threshold, data, pe)}} :
        TRUE

\* the data, methods and thresholds passed to detect: every array of at most
\* MaxDataLen values and the temperatures of the docstring's example; "mad"
\* is none of its method names
DetectData == SeqsUpTo(Vals, MaxDataLen) \cup {<<20, 21, 22, 50, 21, 22, 20>>}
DetectMethods == {"zscore", "iqr", "modified_zscore", "mad"}
Thresholds == {1, 3}

\* what the build may do in np.percentile for this call
PercentileOracle(method, data) ==
    IF method = "iqr" /\ data = <<>> THEN {"nan", "raise"} ELSE {"nan"}

\* a call of detect
Detect ==
    /\ cls = "anomaly_detection"
    /\ call.op = "none"
    /\ \E data \in DetectData, method \in DetectMethods, threshold \in Thresholds :
         \E pe \in PercentileOracle(method, data) :
            LET r == DetectResult(data, method, Int2(threshold), pe)
            IN  call' = [op |-> "detect", a |-> data, b |-> method, c |-> threshold,
                         raised |-> r.raised, value |-> r.value]
    /\ UNCHANGED <<cls, kf, nkf, qm, qmCtor, bma, interp1d_minval, logsumexp_empty,
                   nfits, okfits, nweights, okweights>>

\* a caller of the function detect of anomaly_detection.py
InitDetect ==
    /\ cls = "anomaly_detection"
    /\ qmCtor = "empirical"
    /\ qm = QmNew(qmCtor)
    /\ bma = BmaNew(ModelNames)
    /\ interp1d_minval = 1
    /\ logsumexp_empty = "raise"
    /\ nfits = 0
    /\ okfits = 0
    /\ nweights = 0
    /\ okweights = 0
    /\ kf = KfNew
    /\ nkf = 0
    /\ call = Idle

NextDetect == Detect \/ Return
SpecDetect == InitDetect /\ [][NextDetect]_vars

(***************************************************************************)
(* A caller of a WeatherKalmanFilter and of run_filter                     *)
(***************************************************************************)
KfObservations == SeqsUpTo(0..MaxBVal, MaxObs)
KfData == {<<0, 1, 0>>, <<1, 1, 2>>} \cup KfObservations
NoiseValues == {1, 2}

KfConfigure ==
    /\ cls = "WeatherKalmanFilter"
    /\ call.op = "none"
    /\ nkf < MaxKfCalls
    /\ nkf' = nkf + 1
    /\ \E process_noise \in NoiseValues, measurement_noise \in NoiseValues :
          /\ kf' = KfConfigured(kf, process_noise, measurement_noise)
          /\ call' = [op |-> "configure", a |-> process_noise, b |-> measurement_noise,
                      c |-> <<>>, raised |-> "", value |-> <<>>]
    /\ UNCHANGED <<cls, qm, qmCtor, bma, interp1d_minval, logsumexp_empty,
                   nfits, okfits, nweights, okweights>>

KfFilterData ==
    /\ cls = "WeatherKalmanFilter"
    /\ call.op = "none"
    /\ nkf < MaxKfCalls
    /\ nkf' = nkf + 1
    /\ \E observations \in KfObservations :
          LET r == FilterData(kf, observations)
          IN  /\ kf' = r.self
              /\ call' = [op |-> "filter_data", a |-> observations, b |-> <<>>,
                          c |-> <<>>, raised |-> r.raised, value |-> r.value]
    /\ UNCHANGED <<cls, qm, qmCtor, bma, interp1d_minval, logsumexp_empty,
                   nfits, okfits, nweights, okweights>>

KfForecast ==
    /\ cls = "WeatherKalmanFilter"
    /\ call.op = "none"
    /\ nkf < MaxKfCalls
    /\ nkf' = nkf + 1
    /\ \E steps \in 0..MaxSteps :
          LET r == Forecast(kf, steps)
          IN  /\ kf' = r.self
              /\ call' = [op |-> "forecast", a |-> steps, b |-> <<>>, c |-> <<>>,
                          raised |-> r.raised, value |-> r.value]
    /\ UNCHANGED <<cls, qm, qmCtor, bma, interp1d_minval, logsumexp_empty,
                   nfits, okfits, nweights, okweights>>

\* a call of run_filter: the filter it creates is local to the call and is
\* kept with the outcome
RunFilter ==
    /\ cls = "WeatherKalmanFilter"
    /\ call.op = "none"
    /\ \E data \in KfData, process_noise \in NoiseValues, measurement_noise \in NoiseValues :
          LET r == RunFilterResult(data, process_noise, measurement_noise)
          IN  call' = [op |-> "run_filter", a |-> data, b |-> process_noise,
                       c |-> measurement_noise, raised |-> r.raised,
                       value |-> [result |-> r.value, kf |-> r.kf]]
    /\ UNCHANGED <<cls, kf, nkf, qm, qmCtor, bma, interp1d_minval, logsumexp_empty,
                   nfits, okfits, nweights, okweights>>

InitKF ==
    /\ cls = "WeatherKalmanFilter"
    /\ qmCtor = "empirical"
    /\ qm = QmNew(qmCtor)
    /\ bma = BmaNew(ModelNames)
    /\ interp1d_minval = 1
    /\ logsumexp_empty = "raise"
    /\ nfits = 0
    /\ okfits = 0
    /\ nweights = 0
    /\ okweights = 0
    /\ kf = KfNew
    /\ nkf = 0
    /\ call = Idle

NextKF == KfConfigure \/ KfFilterData \/ KfForecast \/ RunFilter \/ Return
SpecKF == InitKF /\ [][NextKF]_vars

(***************************************************************************)
(* Properties of the corrector                                             *)
(***************************************************************************)
SupportedMethods == {"empirical", "parametric_normal", "parametric_gamma"}

RECURSIVE SeqMin(_)
SeqMin(s) ==
    IF Len(s) = 1 THEN s[1]
    ELSE LET m == SeqMin(Tail(s)) IN IF Head(s) < m THEN Head(s) ELSE m

RECURSIVE SeqMax(_)
SeqMax(s) ==
    IF Len(s) = 1 THEN s[1]
    ELSE LET m == SeqMax(Tail(s)) IN IF Head(s) > m THEN Head(s) ELSE m

\* C1: as long as no fit call on the corrector has returned, a transform
\* call raises and hands back no corrected values, whatever the method
C1_TransformBeforeFitRaises ==
    (call.op = "transform" /\ okfits = 0)
        => (call.raised # "" /\ call.value = <<>>)

\* a transform made after a fit that raised, and before any fit returned
C1_Witness ==
    /\ call.op = "transform"
    /\ nfits > 0
    /\ okfits = 0
    /\ call.raised = "ValueError"

\* C3: a transform call leaves every attribute of the corrector as it was,
\* and a predict call leaves posterior_weights and model_variances as they
\* were, whether the call returns or raises
C3_QueriesAssignNothing ==
    [][(call.op = "none" /\ call'.op \in {"transform", "predict"})
          => (qm' = qm /\ bma' = bma)]_vars

\* a transform that returned corrected values from a fitted corrector
C3_Witness ==
    /\ call.op = "transform"
    /\ call.raised = ""
    /\ call.value # <<>>
    /\ qm.fitted

\* C4: after an empirical fit(model_data, obs_data) has returned,
\* transform(model_data) returns and each of its values lies between the
\* least and the greatest observation, repeated model values included
C4_EmpiricalWithinObservations ==
    (call.op = "fit" /\ call.raised = "" /\ qm.method = "empirical")
        => LET r == Transform(qm, call.a)
           IN  /\ r.raised = ""
               /\ Len(r.value) = Len(call.a)
               /\ \A i \in 1..Len(r.value) :
                      /\ RLe(Int2(SeqMin(call.b)), r.value[i])
                      /\ RLe(r.value[i], Int2(SeqMax(call.b)))

\* an empirical fit with a repeated model value, and model values above
\* every observation
C4_Witness ==
    /\ call.op = "fit"
    /\ call.raised = ""
    /\ qm.method = "empirical"
    /\ \E i, j \in 1..Len(call.a) : i # j /\ call.a[i] = call.a[j]
    /\ SeqMax(call.a) > SeqMax(call.b)
    /\ SeqMin(call.b) < SeqMax(call.b)

\* C7: a fit call on a corrector whose method is none of the three
\* supported names raises and leaves the corrector not fitted
C7_UnsupportedMethodRejected ==
    (call.op = "fit" /\ qmCtor \notin SupportedMethods)
        => (call.raised # "" /\ ~qm.fitted)

\* C8: a fit call with fewer than two model values or fewer than two
\* observations raises, for every method, and does not mark the corrector
\* fitted
C8_TooFewPointsRejected ==
    (call.op = "fit" /\ (Len(call.a) < 2 \/ Len(call.b) < 2))
        => (call.raised # "" /\ (nfits = 1 => ~qm.fitted))

\* C10: after a first fit that returned, a second fit(c, d) that returns
\* leaves a corrector whose transform agrees, on every input, with that of a
\* new corrector of the same constructor method fitted once with (c, d)
C10_RefitLikeFresh ==
    (call.op = "fit" /\ nfits = 2 /\ okfits = 2)
        => \E g \in GammaOracle(QmNew(qmCtor), call.a, call.b) :
              LET fresh == Fit(QmNew(qmCtor), call.a, call.b, interp1d_minval, g)
              IN  /\ fresh.raised = ""
                  /\ \A xs \in XArrays :
                        /\ Transform(fresh.self, xs).raised = Transform(qm, xs).raised
                        /\ Transform(fresh.self, xs).value = Transform(qm, xs).value

\* every value lies between the least and the greatest observation
Clamped(values, obs) ==
    \A i \in 1..Len(values) :
        /\ RLe(Int2(SeqMin(obs)), values[i])
        /\ RLe(values[i], Int2(SeqMax(obs)))

\* C11: a fit on a corrector whose method is parametric_gamma falls back to
\* the empirical method exactly when the model series or the observation
\* series has fewer than 3 strictly positive values; after a fallback the
\* call ends as an empirical fit of the same unfiltered series ends, and where
\* that fit returns the corrector is fitted, its transform is that of an
\* empirical corrector fitted on those series, and transform(model_data)
\* stays between the least and the greatest observation
C11_GammaFallback ==
    [][(call.op = "none" /\ call'.op = "fit" /\ qm.method = "parametric_gamma")
          => LET a == call'.a
                 b == call'.b
                 few == Len(Positive(a)) < 3 \/ Len(Positive(b)) < 3
                 emp == Fit(QmNew("empirical"), a, b, interp1d_minval, "fit")
             IN  /\ (qm'.method = "empirical") <=> few
                 /\ few => /\ call'.raised = emp.raised
                           /\ emp.raised = "" =>
                                 /\ qm'.fitted
                                 /\ \A xs \in XArrays \cup {a} :
                                       /\ Transform(qm', xs).raised = ""
                                       /\ Transform(qm', xs).value
                                             = Transform(emp.self, xs).value
                                 /\ Clamped(Transform(qm', a).value, b)]_vars

\* a gamma corrector that fell back on series holding a zero, and is fitted
C11_Witness ==
    /\ call.op = "fit"
    /\ call.raised = ""
    /\ qmCtor = "parametric_gamma"
    /\ nfits = 1
    /\ qm.method = "empirical"
    /\ qm.fitted
    /\ Len(call.a) = MaxLen
    /\ Len(call.b) = MaxLen
    /\ \E i \in 1..Len(call.a) : call.a[i] = 0

\* C12: on a corrector fitted by the gamma branch (each series had at least
\* 3 strictly positive values), transform returns an array of the length of
\* its input whose entry is exactly 0 wherever the input is <= 0, and is the
\* gamma mapping of the input value of the same position elsewhere
C12_GammaZerosAndOrder ==
    (call.op = "transform" /\ qm.fitted /\ qm.method = "parametric_gamma")
        => /\ call.raised = ""
           /\ Len(call.value) = Len(call.a)
           /\ \A i \in 1..Len(call.a) :
                 IF call.a[i] <= 0 THEN call.value[i] = Int2(0)
                 ELSE call.value[i]
                        = GammaMap(call.a[i], Get(qm.model_gamma), Get(qm.obs_gamma))

\* a transform of an array that holds a non-positive and a positive value
C12_Witness ==
    /\ call.op = "transform"
    /\ call.raised = ""
    /\ qm.fitted
    /\ qm.method = "parametric_gamma"
    /\ Len(call.a) = 2
    /\ \E i, j \in 1..Len(call.a) : call.a[i] <= 0 /\ call.a[j] > 0

\* C18: a parametric_normal corrector fitted with one non-empty series as
\* both model_data and obs_data returns its input from transform
C18_NormalRoundTrip ==
    (/\ call.op = "transform"
     /\ qm.method = "parametric_normal"
     /\ qm.fitted
     /\ qm.model_data = qm.obs_data
     /\ qm.model_data # Some(<<>>))
        => /\ call.raised = ""
           /\ call.value = [i \in 1..Len(call.a) |-> Int2(call.a[i])]

Distinct(s) == \A i, j \in 1..Len(s) : i # j => s[i] # s[j]

\* C19: after an empirical fit of series of one length whose model values
\* are pairwise distinct, transform maps the k-th smallest model value to the
\* k-th smallest observation: for the whole sorted sample once the fit has
\* returned, for each value a later transform call is given, and for a new
\* corrector fitted with model_data = [1,2,3,4,5], obs_data = [2,3,4,5,6]
C19_RankToRank ==
    /\ (/\ call.op = "fit"
        /\ call.raised = ""
        /\ qm.method = "empirical"
        /\ Len(call.a) = Len(call.b)
        /\ Distinct(call.a))
          => LET r == Transform(qm, NpSort(call.a))
             IN  r.raised = "" /\ r.value = AsNums(NpSort(call.b))
    /\ (/\ call.op = "transform"
        /\ okfits = nfits
        /\ qm.fitted
        /\ qm.method = "empirical"
        /\ Distinct(Get(qm.model_data)))
          => /\ call.raised = ""
             /\ \A i \in 1..Len(call.a), k \in 1..Len(Get(qm.model_data)) :
                   call.a[i] = Get(qm.model_data)[k]
                      => call.value[i] = Int2(Get(qm.obs_data)[k])
    /\ (nfits = 0 /\ call.op = "none" /\ qm.method = "empirical")
          => LET f == Fit(qm, <<1, 2, 3, 4, 5>>, <<2, 3, 4, 5, 6>>,
                          interp1d_minval, "fit")
             IN  /\ f.raised = ""
                 /\ Transform(f.self, <<1, 2, 3, 4, 5>>).value
                       = AsNums(<<2, 3, 4, 5, 6>>)

\* a transform of the middle one of three distinct model values
C19_Witness ==
    /\ call.op = "transform"
    /\ call.raised = ""
    /\ okfits = nfits
    /\ qm.fitted
    /\ qm.method = "empirical"
    /\ qm.model_data = Some(<<0, 1, 2>>)
    /\ Get(qm.obs_data)[1] < Get(qm.obs_data)[3]
    /\ call.a = <<1>>

(***************************************************************************)
(* Properties of the averager                                              *)
(***************************************************************************)
\* C2: as long as no compute_weights call on the averager has returned, a
\* predict call raises and hands back no result
C2_PredictBeforeWeightsRaises ==
    (call.op = "predict" /\ okweights = 0)
        => (call.raised # "" /\ call.value = <<>>)

\* a predict made after a compute_weights that raised, and before any returned
C2_Witness ==
    /\ call.op = "predict"
    /\ nweights > 0
    /\ okweights = 0
    /\ call.raised = "ValueError"

\* each weight is exp(lp_k) / sum of exp(lp_j) over exactly the names returned:
\* the weights are then in [0, 1] and sum to one
WeightsNormalised(weights) ==
    \A i \in 1..Len(weights) :
        /\ weights[i].v.t = "w"
        /\ weights[i].v.den =
              [j \in 1..Len(weights) |-> [t |-> "lp", p |-> weights[j].v.num]]

\* C5: for a non-empty models_predictions whose series all have the length
\* of observations, the weights compute_weights returns lie in [0, 1] and sum
\* to one
C5_WeightsNormalised ==
    (/\ call.op = "compute_weights"
     /\ call.raised = ""
     /\ call.a # <<>>
     /\ \A i \in 1..Len(call.a) : Len(call.a[i].v) = Len(call.b))
        => WeightsNormalised(call.value)

\* C6: after any compute_weights calls, returned or raised, whenever
\* posterior_weights is set its names are those of model_variances
C6_WeightNamesAreVarianceNames ==
    IsSet(bma.posterior_weights)
        => /\ IsSet(bma.model_variances)
           /\ DictKeys(Get(bma.posterior_weights)) = DictKeys(Get(bma.model_variances))

\* C9: compute_weights raises, and returns no weights, when
\* models_predictions is empty or a series of an included model differs in
\* length from observations, a series of length one included
C9_BadShapesRejected ==
    (/\ call.op = "compute_weights"
     /\ \/ call.a = <<>>
        \/ \E i \in 1..Len(call.a) :
              /\ call.a[i].k \in Names
              /\ Len(call.a[i].v) # Len(call.b))
        => (call.raised # "" /\ call.value = <<>>)

\* C13: a compute_weights call whose models_predictions lacks a name of
\* model_names, holds another, and whose included series have the length of a
\* non-empty observations returns; the names of the weights it returns and
\* stores are exactly the names in both model_names and models_predictions,
\* and the weights are normalised over those names
C13_AbsentNamesSkipped ==
    (/\ call.op = "compute_weights"
     /\ \E name \in Names : ~DictHas(call.a, name)
     /\ \E name \in Names : DictHas(call.a, name)
     /\ Len(call.b) >= 1
     /\ \A i \in 1..Len(call.a) :
           call.a[i].k \in Names => Len(call.a[i].v) = Len(call.b))
        => /\ call.raised = ""
           /\ DictKeys(call.value) = Names \cap DictKeys(call.a)
           /\ WeightsNormalised(call.value)
           /\ bma.posterior_weights = Some(call.value)

\* a call that holds a name of model_names, lacks the other, and holds a name
\* that is not in model_names
C13_Witness ==
    /\ call.op = "compute_weights"
    /\ call.raised = ""
    /\ DictHas(call.a, "A")
    /\ ~DictHas(call.a, "B")
    /\ DictHas(call.a, "C")
    /\ DictKeys(call.value) = {"A"}

\* mean((obs - pred)^2), RSS / n, of two series of one non-zero length
MeanSquaredResidual(observations, predictions) ==
    LET n == Len(observations)
    IN  Rat(SumSeq([i \in 1..n |->
                      (observations[i] - predictions[i]) * (observations[i] - predictions[i])]),
            n)

\* C14: for every included model whose series has the length of a non-empty
\* observations, the variance compute_weights stores for it is
\* mean((obs - pred)^2) plus 1e-10
C14_VarianceIsMeanSquare ==
    (/\ call.op = "compute_weights"
     /\ call.raised = ""
     /\ Len(call.b) >= 1
     /\ \A i \in 1..Len(call.a) :
           call.a[i].k \in Names => Len(call.a[i].v) = Len(call.b))
        => \A i \in 1..Len(call.a) :
              call.a[i].k \in Names
                 => LET m == MeanSquaredResidual(call.b, call.a[i].v)
                    IN  DictGet(Get(bma.model_variances), call.a[i].k)
                          = [t |-> "eps", n |-> m.n, d |-> m.d, p |-> <<>>]

\* the items of models_predictions whose name has a stored weight, in the
\* order of the mapping
RECURSIVE Weighted(_, _)
Weighted(models_predictions, names) ==
    IF models_predictions = <<>> THEN <<>>
    ELSE IF Head(models_predictions).k \in names
    THEN <<Head(models_predictions)>> \o Weighted(Tail(models_predictions), names)
    ELSE Weighted(Tail(models_predictions), names)

\* models_predictions shares a name with the stored weights, and the series
\* of the shared names have one length
Predictable(models_predictions, weights) ==
    LET both == Weighted(models_predictions, DictKeys(weights))
    IN  /\ both # <<>>
        /\ \A i, j \in 1..Len(both) : Len(both[i].v) = Len(both[j].v)

\* C15: a predict call whose models_predictions shares a name with the stored
\* weights returns, whatever the position of the names that have no stored
\* weight, and its mean is the sum of w_i * pred_i over exactly the names in
\* both
C15_PredictSkipsUnweighted ==
    (/\ call.op = "predict"
     /\ IsSet(bma.posterior_weights)
     /\ Predictable(call.a, Get(bma.posterior_weights)))
        => /\ call.raised = ""
           /\ call.value.mean = Weighted(call.a, DictKeys(Get(bma.posterior_weights)))

\* C16: for such a call the within-model variance is the sum of w_i * var_i
\* and the between-model variance the sum of w_i * (pred_i - mean)^2, over
\* the names in both, each term with the prediction series of its own name
C16_VariancePairsOwnSeries ==
    (/\ call.op = "predict"
     /\ IsSet(bma.posterior_weights)
     /\ Predictable(call.a, Get(bma.posterior_weights)))
        => /\ call.raised = ""
           /\ LET both == Weighted(call.a, DictKeys(Get(bma.posterior_weights)))
              IN  /\ Len(call.value.within) = Len(both)
                  /\ Len(call.value.between) = Len(both)
                  /\ \A i \in 1..Len(both) :
                        /\ call.value.within[i].k = both[i].k
                        /\ call.value.between[i] = both[i]

\* exp(p) > exp(q) for two log posteriors <<prior.n, prior.d, n, var.n,
\* var.d, rss>> of one prior and one n >= 1, each standing for
\* log(prior) - n/2 * log(2 pi (var + 1e-10)) - rss / (2 (var + 1e-10)):
\* p has the variance and the rss / (var + 1e-10) of q or less, and one of
\* them is less
LogPosteriorGreater(p, q) ==
    /\ p[1] * q[2] = q[1] * p[2]
    /\ p[3] = q[3]
    /\ p[3] >= 1
    /\ p[4] * q[5] <= q[4] * p[5]
    /\ p[6] * q[4] * p[5] <= q[6] * p[4] * q[5]
    /\ p[6] <= q[6]
    /\ (p[4] * q[5] < q[4] * p[5] \/ p[6] < q[6])

\* the prior a compute_weights call gave to a name of model_names: 1 / 2
\* for each when prior_weights was omitted
CallPrior(prior_arg, name) ==
    IF IsSet(prior_arg) THEN DictGet(Get(prior_arg), name) ELSE Rat(1, 2)

\* C17: with a uniform prior, a model whose predictions equal the
\* observations gets a strictly greater weight than a model whose predictions
\* differ from them
C17_ExactModelWins ==
    (/\ call.op = "compute_weights"
     /\ call.raised = ""
     /\ Len(call.b) >= 1)
        => \A i, j \in 1..Len(call.a) :
              (/\ call.a[i].k \in Names
               /\ call.a[j].k \in Names
               /\ CallPrior(call.c, call.a[i].k) = CallPrior(call.c, call.a[j].k)
               /\ call.a[i].v = call.b
               /\ Len(call.a[j].v) = Len(call.b)
               /\ call.a[j].v # call.b)
                 => LET wi == DictGet(call.value, call.a[i].k)
                        wj == DictGet(call.value, call.a[j].k)
                    IN  /\ wi.t = "w"
                        /\ wj.t = "w"
                        /\ wi.den = wj.den
                        /\ LogPosteriorGreater(wi.num, wj.num)

\* an exact model and a model that is off by a constant
C17_Witness ==
    /\ call.op = "compute_weights"
    /\ call.raised = ""
    /\ Len(call.a) = 2
    /\ call.b = <<0, 1>>
    /\ call.c = None
    /\ DictHas(call.a, "A")
    /\ DictHas(call.a, "B")
    /\ DictGet(call.a, "A") = <<0, 1>>
    /\ DictGet(call.a, "B") = <<1, 0>>

\* C20: models with one prediction series and equal priors get equal weights
\* from compute_weights; for A and B both predicting [20,21,22] against
\* observations [20,21,22] with the default prior, both weights are 1/2, and
\* predict on the same mapping has the mean [20,21,22] (each series is it), a
\* within-model variance of 1e-10 (each stored variance is 0 + 1e-10) and a
\* between-model variance of 0 (each series is the mean): a std of 1e-5
C20_EqualSeriesEqualWeights ==
    /\ (call.op = "compute_weights" /\ call.raised = "")
          => \A i, j \in 1..Len(call.a) :
                (/\ call.a[i].k \in Names
                 /\ call.a[j].k \in Names
                 /\ call.a[i].v = call.a[j].v
                 /\ CallPrior(call.c, call.a[i].k) = CallPrior(call.c, call.a[j].k))
                   => DictGet(call.value, call.a[i].k) = DictGet(call.value, call.a[j].k)
    /\ (nweights = 0 /\ call.op = "none" /\ cls = "BayesianModelAveraging")
          => LET s == <<20, 21, 22>>
                 mp == <<[k |-> "A", v |-> s], [k |-> "B", v |-> s]>>
                 r == ComputeWeights(bma, mp, s, None, logsumexp_empty)
                 pr == Predict(r.self, mp)
             IN  /\ r.raised = ""
                 /\ DictKeys(r.value) = {"A", "B"}
                 /\ WeightsNormalised(r.value)
                 /\ DictGet(r.value, "A") = DictGet(r.value, "B")
                 /\ pr.raised = ""
                 /\ pr.value.mean = mp
                 /\ pr.value.between = mp
                 /\ pr.value.within
                       = [i \in 1..2 |->
                            [k |-> mp[i].k,
                             v |-> [t |-> "eps", n |-> 0, d |-> 1, p |-> <<>>]]]

\* two models with one series, not that of the observations, and the
\* uniform prior
C20_Witness ==
    /\ call.op = "compute_weights"
    /\ call.raised = ""
    /\ call.c = None
    /\ Len(call.a) = 2
    /\ DictHas(call.a, "A")
    /\ DictHas(call.a, "B")
    /\ call.a[1].v = call.a[2].v
    /\ call.a[1].v # call.b
    /\ Len(call.b) = 2
    /\ CallPrior(call.c, "A") = CallPrior(call.c, "B")

\* C23: a compute_weights call without prior_weights raises what, and
\* returns the weights that, the call with the mapping of every name of
\* model_names to 1 / n_models does on the same instance and arguments; and
\* the mapping a caller passes is after the call what it was
C23_DefaultPriorIsUniform ==
    (call.op = "compute_weights")
        => LET uniform == [i \in 1..Len(bma.model_names) |->
                             [k |-> bma.model_names[i],
                              v |-> Rat(1, Len(bma.model_names))]]
               e == ComputeWeights(BmaNew(bma.model_names), call.a, call.b,
                                   Some(uniform), logsumexp_empty)
           IN  /\ call.c = None => (e.raised = call.raised /\ e.value = call.value)
               /\ PriorAfter(call.c) = call.c
               /\ PriorAfter(Some(uniform)) = Some(uniform)

\* a call without prior_weights that returned weights for two models with
\* different series
C23_Witness ==
    /\ call.op = "compute_weights"
    /\ call.raised = ""
    /\ call.c = None
    /\ Len(call.value) = 2
    /\ call.a[1].v # call.a[2].v
    /\ Len(call.b) = 2
    /\ \A i \in 1..2 : call.value[i].v.t = "w"

\* the value of a stored weight where the terms decide it: 0 for a zero
\* weight, 1 / k for a weight whose k log posteriors are all its own
WeightValue(w) ==
    IF w.t = "zero" THEN Some(Int2(0))
    ELSE IF w.t = "w" /\ \A i \in 1..Len(w.den) : w.den[i].t = "lp" /\ w.den[i].p = w.num
    THEN Some(Rat(1, Len(w.den)))
    ELSE None

\* C28: at every time step the mean predict returns lies between the
\* smallest and the largest prediction of the models included in the call,
\* also when models_predictions holds a subset of the models that have a
\* stored weight (checked where the stored weights have a known value)
C28_MeanIsConvex ==
    (/\ call.op = "predict"
     /\ call.raised = ""
     /\ \A i \in 1..Len(call.value.mean) :
           IsSet(WeightValue(DictGet(Get(bma.posterior_weights), call.value.mean[i].k))))
        => LET used == call.value.mean
               w(i) == Get(WeightValue(DictGet(Get(bma.posterior_weights), used[i].k)))
           IN  \A t \in 1..call.value.n :
                  LET at == [i \in 1..Len(used) |-> used[i].v[t]]
                      mean == RSum([i \in 1..Len(used) |-> RMul(w(i), Int2(at[i]))])
                  IN  /\ RLe(Int2(SeqMin(at)), mean)
                      /\ RLe(mean, Int2(SeqMax(at)))

(***************************************************************************)
(* Properties of compute_statistics and run_correction                     *)
(***************************************************************************)
\* mean((x - y)^2) of two series of one non-zero length
MeanSquaredDifference(x, y) ==
    Rat(SumSeq([i \in 1..Len(x) |-> (x[i] - y[i]) * (x[i] - y[i])]), Len(x))

\* C21: compute_statistics on three arrays of one non-zero length returns,
\* also when bias_before or rmse_before is 0; the bias reduction_percent is
\* 100 when bias_before = 0 and (1 - |bias_after| / |bias_before|) * 100
\* otherwise; the RMSE reduction_percent r is 0 when rmse_before <= 0 and
\* otherwise (1 - rmse_after / rmse_before) * 100, that is r <= 100 and
\* (1 - r / 100)^2 * rmse_before^2 = rmse_after^2
C21_ReductionSentinels ==
    (/\ call.op = "compute_statistics"
     /\ Len(call.a) >= 1
     /\ Len(call.b) = Len(call.a)
     /\ Len(call.c) = Len(call.a))
        => LET bias_before == RSub(NpMean(call.a), NpMean(call.b))
               bias_after == RSub(NpMean(call.c), NpMean(call.b))
               msb == MeanSquaredDifference(call.a, call.b)
               msa == MeanSquaredDifference(call.c, call.b)
               br == call.value.bias.reduction_percent
               rr == call.value.rmse.reduction_percent
               k == RSub(Int2(1), RDiv(rr, Int2(100)))
           IN  /\ call.raised = ""
               /\ call.value.bias.before = bias_before
               /\ call.value.bias.after = bias_after
               /\ IF bias_before.n = 0 THEN br = Int2(100)
                  ELSE br = RMul(RSub(Int2(1),
                                      RDiv(RAbs(bias_after), RAbs(bias_before))),
                                 Int2(100))
               /\ IF msb.n <= 0 THEN rr = Int2(0)
                  ELSE IF rr.t = "rat"
                  THEN RLe(rr, Int2(100)) /\ RMul(RMul(k, k), msb) = msa
                  ELSE rr.t = "pct" /\ Rat(rr.n, rr.d) = RDiv(msa, msb)

\* a call with bias_before = 0 and rmse_before > 0
C21_Witness ==
    /\ call.op = "compute_statistics"
    /\ call.raised = ""
    /\ call.a = <<0, 2>>
    /\ call.b = <<2, 0>>
    /\ call.c = <<1, 2>>
    /\ call.value.bias.reduction_percent = Int2(100)

\* C22: no division by a variance or a standard deviation of the data is a
\* division by zero: the variance ratios compute_statistics returns are
\* finite numbers, also for observations of zero variance, and the values a
\* parametric_normal corrector of run_correction returns are finite numbers,
\* also for predictions of zero standard deviation
C22_NoDivisionByZero ==
    /\ (call.op = "compute_statistics" /\ call.raised = "")
          => /\ call.value.variance_ratio.before.t = "rat"
             /\ call.value.variance_ratio.after.t = "rat"
    /\ (/\ call.op = "run_correction"
        /\ call.raised = ""
        /\ call.value.qm.method = "parametric_normal")
          => \A i \in 1..Len(call.value.result.corrected_values) :
                call.value.result.corrected_values[i].t = "rat"

\* C25: run_correction fits and applies a corrector created with method
\* empirical for 'quantile' and 'empirical', parametric_normal for 'linear',
\* parametric_gamma for 'gamma' and empirical for every other string, the
\* constructor's names 'parametric_normal' and 'parametric_gamma' included;
\* the 'method' field of a result is the string that was passed
C25_Dispatch ==
    (call.op = "run_correction")
        => LET created == CASE call.c \in {"quantile", "empirical"} -> "empirical"
                            [] call.c = "linear" -> "parametric_normal"
                            [] call.c = "gamma" -> "parametric_gamma"
                            [] OTHER -> "empirical"
           IN  /\ \E g \in GammaOracle(QmNew(created), call.a, call.b) :
                     LET f == Fit(QmNew(created), call.a, call.b, interp1d_minval, g)
                         t == Transform(f.self, call.a)
                     IN  /\ call.value.qm = f.self
                         /\ f.raised # "" => call.raised = f.raised
                         /\ (f.raised = "" /\ t.raised # "") => call.raised = t.raised
                         /\ call.raised = ""
                               => call.value.result.corrected_values = t.value
               /\ call.raised = "" => call.value.result.method = call.c

\* a call with method 'parametric_normal' that used an empirical corrector,
\* on predictions for which a parametric_normal corrector returns other
\* values
C25_Witness ==
    /\ call.op = "run_correction"
    /\ call.raised = ""
    /\ call.c = "parametric_normal"
    /\ call.value.qm.method = "empirical"
    /\ call.value.result.method = "parametric_normal"
    /\ call.value.result.corrected_values
          # Transform(Fit(QmNew("parametric_normal"), call.a, call.b,
                          interp1d_minval, "fit").self, call.a).value

\* C26: a fit call that raises leaves a fitted corrector as it was: fitted
\* is still true and transform returns for every input what it returned
\* before the call
C26_RaisingFitKeepsCorrector ==
    [][(/\ call.op = "none"
        /\ call'.op = "fit"
        /\ call'.raised # ""
        /\ qm.fitted)
          => /\ qm'.fitted
             /\ \A x \in XArrays :
                   /\ Transform(qm', x).raised = Transform(qm, x).raised
                   /\ Transform(qm', x).value = Transform(qm, x).value]_vars

\* C27: the transform of a fitted empirical corrector preserves rank: for
\* any two inputs x <= y it returns transform(x) <= transform(y), across
\* calls and within the array of one call
C27_RankPreserving ==
    /\ (call.op = "fit" /\ qm.fitted /\ qm.method = "empirical")
          => \A x, y \in XVals :
                LET tx == Transform(qm, <<x>>)
                    ty == Transform(qm, <<y>>)
                IN  (x <= y /\ tx.raised = "" /\ ty.raised = "")
                        => RLe(tx.value[1], ty.value[1])
    /\ (/\ call.op = "transform"
        /\ call.raised = ""
        /\ qm.method = "empirical")
          => \A i, j \in 1..Len(call.a) :
                call.a[i] <= call.a[j] => RLe(call.value[i], call.value[j])

\* a fitted empirical corrector that maps two inputs to two different values
C27_Witness ==
    /\ call.op = "fit"
    /\ call.raised = ""
    /\ qm.fitted
    /\ qm.method = "empirical"
    /\ Len(call.a) = MaxLen
    /\ \E x, y \in XVals :
          /\ x < y
          /\ Transform(qm, <<x>>).raised = ""
          /\ RLt(Transform(qm, <<x>>).value[1], Transform(qm, <<y>>).value[1])

\* C29: run_correction with a method that runs the empirical corrector, on
\* pairwise distinct predictions and as many observations, returns for two
\* values or more, and corrected_values it returns are a permutation of the
\* observations (the prediction of rank k becomes the observation of rank
\* k), its bias 'after' is 0 and its bias reduction_percent is 100
C29_CorrectedIsPermutation ==
    (/\ call.op = "run_correction"
     /\ call.c \notin {"linear", "gamma"}
     /\ Distinct(call.a)
     /\ Len(call.b) = Len(call.a))
        => /\ Len(call.a) >= 2 => call.raised = ""
           /\ call.raised = ""
                => LET n == Len(call.a)
                       corrected == call.value.result.corrected_values
                       stats == call.value.result.statistics
                   IN  /\ Len(corrected) = n
                       /\ \E f \in [1..n -> 1..n] :
                             /\ \A i, j \in 1..n : i # j => f[i] # f[j]
                             /\ \A i \in 1..n : corrected[i] = Int2(call.b[f[i]])
                       /\ \A i \in 1..n :
                             corrected[i]
                                = Int2(NpSort(call.b)[
                                    Cardinality({j \in 1..n : call.a[j] <= call.a[i]})])
                       /\ stats.bias.after = Int2(0)
                       /\ stats.bias.reduction_percent = Int2(100)

\* a call on unsorted predictions whose bias before the correction is not 0
C29_Witness ==
    /\ call.op = "run_correction"
    /\ call.raised = ""
    /\ call.c = "quantile"
    /\ call.a = <<1, 0>>
    /\ call.b = <<0, 2>>
    /\ call.value.result.corrected_values = AsNums(<<2, 0>>)
    /\ call.value.result.statistics.bias.before # Int2(0)

(***************************************************************************)
(* Properties of detect                                                    *)
(***************************************************************************)
\* C24: detect with method zscore flags exactly the indices i with
\* |data[i] - mean| / (std + 1e-10) above the threshold (for a threshold
\* t >= 0 and data that are not constant: (data[i] - mean)^2 > t^2 * std^2);
\* for the data [20,21,22,50,21,22,20] and the threshold 3.0 the
\* anomaly_indices are [3]
C24_ZscoreFlags ==
    /\ (call.op = "detect" /\ call.b = "zscore" /\ call.raised = "")
          => LET n == Len(call.a)
                 mean == Rat(SumSeq(call.a), n)
                 sqdev(i) == RMul(RSub(Int2(call.a[i]), mean), RSub(Int2(call.a[i]), mean))
                 var == RDiv(RSum([i \in 1..n |-> sqdev(i)]), Int2(n))
                 flagged == {i \in 1..n : RLt(RMul(Int2(call.c * call.c), var), sqdev(i))}
                 idx == call.value.results.anomaly_indices
             IN  /\ {idx[k] + 1 : k \in 1..Len(idx)} = flagged
                 /\ Len(idx) = Cardinality(flagged)
                 /\ \A k \in 1..(Len(idx) - 1) : idx[k] < idx[k + 1]
    /\ (/\ call.op = "detect"
        /\ call.a = <<20, 21, 22, 50, 21, 22, 20>>
        /\ call.b = "zscore"
        /\ call.c = 3)
          => call.raised = "" /\ call.value.results.anomaly_indices = <<3>>

(***************************************************************************)
(* Properties of the Kalman filter                                         *)
(***************************************************************************)
\* C30: forecast(steps) leaves x and P as they were and returns steps
\* values, for every steps >= 0; and a filter_data call returns, and leaves
\* in x and P, after a forecast what it does without it
C30_ForecastIsPure ==
    [][/\ call'.op = "forecast"
          => /\ kf'.x = kf.x
             /\ kf'.P = kf.P
             /\ call'.raised = ""
             /\ Len(call'.value) = call'.a
       /\ call.op = "none"
          => \A steps \in 0..MaxSteps, observations \in KfObservations :
                LET with == FilterData(Forecast(kf, steps).self, observations)
                    without == FilterData(kf, observations)
                IN  /\ with.raised = without.raised
                    /\ with.value = without.value
                    /\ with.self.x = without.self.x
                    /\ with.self.P = without.self.P]_vars

\* a forecast of MaxSteps values on a filter that has filtered data, which
\* left its last predict step in x_prior
C30_Witness ==
    /\ call.op = "forecast"
    /\ call.a = MaxSteps
    /\ Len(call.value) = MaxSteps
    /\ kf.x.t = "x+Ky"
    /\ kf.x_prior # kf.x
    /\ kf.x_prior.t = "Fx"

====
